---- MODULE Spec2Model ----
(***************************************************************************)
(* The JulietScript lint engine (crates/julietscript-lint/src/linter.js):  *)
(* lintJulietScript(source) = new Parser(new Tokenizer(source).tokenize()) *)
(* .parse().  The source text is a sequence of one-character strings; the  *)
(* tokenizer advances one token per step, the parser one loop iteration    *)
(* (top-level dispatch, block loop, list loop, synchronization loop) per   *)
(* step, counted in steps.  Indices (index, currentIndex) are zero-based   *)
(* as in the code.                                                         *)
(***************************************************************************)
EXTENDS Integers, Sequences, FiniteSets, TLC

VARIABLES
    source,          \* Tokenizer.source
    index,           \* Tokenizer.index
    line,            \* Tokenizer.line
    character,       \* Tokenizer.character
    tokens,          \* Tokenizer.tokens, then Parser.tokens
    lexDiagnostics,  \* Tokenizer.diagnostics
    currentIndex,    \* Parser.currentIndex
    diagnostics,     \* Parser.diagnostics; the returned list once pc = "done"
    context,         \* Parser.context
    locals,          \* local variables of the running production
    pc,              \* control point of lintJulietScript
    ret,             \* block loop that called synchronizeInBlock
    raised,          \* an exception escaped lintJulietScript
    run,             \* number of the current invocation
    prevSource,      \* source of the previous invocation
    prevResult,      \* list the previous invocation returned
    steps            \* loop iterations the current invocation has executed

vars == <<source, index, line, character, tokens, lexDiagnostics, currentIndex,
          diagnostics, context, locals, pc, ret, raised, run, prevSource, prevResult,
          steps>>

tokenizerVars == <<source, index, line, character, tokens, lexDiagnostics>>
callerVars == <<run, prevSource, prevResult>>

-----------------------------------------------------------------------------
(* Bounds of the model *)

\* sources of at most MaxLen characters over Alphabet are all linted
MaxLen == 3
\* programs are sequences of at most MaxStmts statements of CoreStatements
MaxStmts == 2
\* lintJulietScript is invoked at most MaxRuns times in a row
MaxRuns == 2

-----------------------------------------------------------------------------
(* Constants of linter.js *)

SEVERITY == [ERROR |-> "error", WARNING |-> "warning"]

Kw ==
    [juliet |-> <<"j","u","l","i","e","t">>,
       policy |-> <<"p","o","l","i","c","y">>,
       rubric |-> <<"r","u","b","r","i","c">>,
       cadence |-> <<"c","a","d","e","n","c","e">>,
       create |-> <<"c","r","e","a","t","e">>,
       extend |-> <<"e","x","t","e","n","d">>,
       halt |-> <<"h","a","l","t">>,
       engine |-> <<"e","n","g","i","n","e">>,
       criterion |-> <<"c","r","i","t","e","r","i","o","n">>,
       points |-> <<"p","o","i","n","t","s">>,
       means |-> <<"m","e","a","n","s">>,
       tiebreakers |-> <<"t","i","e","b","r","e","a","k","e","r","s">>,
       compare |-> <<"c","o","m","p","a","r","e">>,
       using |-> <<"u","s","i","n","g">>,
       keep |-> <<"k","e","e","p">>,
       best |-> <<"b","e","s","t">>,
       variants |-> <<"v","a","r","i","a","n","t","s">>,
       sprints |-> <<"s","p","r","i","n","t","s">>,
       from |-> <<"f","r","o","m">>,
       julietArtifactSourceFiles |-> <<"j","u","l","i","e","t","A","r","t","i","f","a","c","t","S","o","u","r","c","e","F","i","l","e","s">>,
       with |-> <<"w","i","t","h">>,
       preflight |-> <<"p","r","e","f","l","i","g","h","t">>,
       failureTriage |-> <<"f","a","i","l","u","r","e","T","r","i","a","g","e">>,
       codex |-> <<"c","o","d","e","x">>]

\* a keyword set that lacks halt
TopLevelKeywordsWithoutHalt ==
    {Kw.juliet, Kw.policy, Kw.rubric, Kw.cadence, Kw.create, Kw.extend}

TOP_LEVEL_KEYWORDS ==
    {Kw.juliet, Kw.policy, Kw.rubric, Kw.cadence, Kw.create, Kw.extend, Kw.halt}

\* a key set that also supports the key `project`
JulietKeysWithProject == {Kw.engine, <<"p", "r", "o", "j", "e", "c", "t">>}

JULIET_ALLOWED_KEYS == {Kw.engine}

\* a key table that names the triage policy `triage`
CreateKeysWithTriage ==
    (Kw.preflight :> "policy") @@ (<<"t", "r", "i", "a", "g", "e">> :> "policy")
        @@ (Kw.cadence :> "cadence") @@ (Kw.rubric :> "rubric")

\* a key table that looks the triage policy up among the rubrics
CreateKeysTriageAsRubric ==
    (Kw.preflight :> "policy") @@ (Kw.failureTriage :> "rubric")
        @@ (Kw.cadence :> "cadence") @@ (Kw.rubric :> "rubric")

CREATE_ALLOWED_KEYS ==
    (Kw.preflight :> "policy") @@ (Kw.failureTriage :> "policy")
        @@ (Kw.cadence :> "cadence") @@ (Kw.rubric :> "rubric")

Letters ==
    {"a", "b", "c", "d", "e", "f", "g", "h", "i", "j", "k", "l", "m",
     "n", "o", "p", "q", "r", "s", "t", "u", "v", "w", "x", "y", "z",
     "A", "B", "C", "D", "E", "F", "G", "H", "I", "J", "K", "L", "M",
     "N", "O", "P", "Q", "R", "S", "T", "U", "V", "W", "X", "Y", "Z"}

Digits == {"0", "1", "2", "3", "4", "5", "6", "7", "8", "9"}

Punctuation == {"{", "}", "[", "]", "(", ")", "=", ";", ",", "."}

\* a template literal: the parts of a message joined into one string
RECURSIVE Str(_)
Str(chars) == IF chars = <<>> THEN "" ELSE Head(chars) \o Str(Tail(chars))

\* a comparator that looks at the line only
comparePositionsByLine(a, b) == a.line - b.line

comparePositions(a, b) ==
    IF a.line # b.line THEN a.line - b.line ELSE a.character - b.character

-----------------------------------------------------------------------------
(* Tokenizer *)

Scanner == [index |-> index, line |-> line, character |-> character]

TIsAtEnd(sc) == sc.index >= Len(source)

\* source[index + offset]; past the end JavaScript yields undefined
TPeek(sc, offset) ==
    IF sc.index + offset < Len(source) THEN source[sc.index + offset + 1]
    ELSE "undefined"

TAdvance(sc) ==
    LET ch == TPeek(sc, 0)
    IN  [index |-> sc.index + 1,
         line |-> IF ch = "\n" THEN sc.line + 1 ELSE sc.line,
         character |-> IF ch = "\n" THEN 0 ELSE sc.character + 1]

getPosition(sc) == [line |-> sc.line, character |-> sc.character]

isIdentifierStart(ch) == ch \in Letters
isIdentifierPart(ch) == ch \in Letters \cup Digits \cup {"_"}
isDigit(ch) == ch \in Digits

\* source.slice(from, to)
Slice(from, to) == SubSeq(source, from + 1, to)

Token(kind, value, start, end) ==
    [kind |-> kind, value |-> value, start |-> start, end |-> end]

Diagnostic(start, end, message, severity) ==
    [severity |-> severity, message |-> message,
     range |-> [start |-> start, end |-> end]]

RECURSIVE SkipComment(_)
SkipComment(sc) ==
    IF ~TIsAtEnd(sc) /\ TPeek(sc, 0) # "\n" THEN SkipComment(TAdvance(sc)) ELSE sc

RECURSIVE skipTrivia(_)
skipTrivia(sc) ==
    IF TIsAtEnd(sc) THEN sc
    ELSE LET ch == TPeek(sc, 0)
         IN  IF ch \in {" ", "\t", "\r", "\n"} THEN skipTrivia(TAdvance(sc))
             ELSE IF ch = "#" THEN skipTrivia(SkipComment(sc))
             ELSE sc

\* the scanner after the loop  while (!isAtEnd() && Part(peek())) advance()
RECURSIVE ScanIdentifierPart(_)
ScanIdentifierPart(sc) ==
    IF ~TIsAtEnd(sc) /\ isIdentifierPart(TPeek(sc, 0))
    THEN ScanIdentifierPart(TAdvance(sc)) ELSE sc

RECURSIVE ScanDigits(_)
ScanDigits(sc) ==
    IF ~TIsAtEnd(sc) /\ isDigit(TPeek(sc, 0)) THEN ScanDigits(TAdvance(sc)) ELSE sc

\* a tokenizer step yields the scanner, the tokens and the diagnostics pushed
Scanned(sc, toks, diags) == [sc |-> sc, toks |-> toks, diags |-> diags]

tokenizeIdentifier(sc) ==
    LET end == ScanIdentifierPart(TAdvance(sc))
    IN  Scanned(end,
                <<Token("identifier", Slice(sc.index, end.index),
                        getPosition(sc), getPosition(end))>>,
                <<>>)

tokenizeNumber(sc) ==
    LET end == ScanDigits(TAdvance(sc))
    IN  Scanned(end,
                <<Token("number", Slice(sc.index, end.index),
                        getPosition(sc), getPosition(end))>>,
                <<>>)

IsTripleQuote(sc) ==
    TPeek(sc, 0) = "\"" /\ TPeek(sc, 1) = "\"" /\ TPeek(sc, 2) = "\""

\* the scanner at the closing triple quote, or at the end of the source
RECURSIVE ScanBlockString(_)
ScanBlockString(sc) ==
    IF TIsAtEnd(sc) \/ IsTripleQuote(sc) THEN sc ELSE ScanBlockString(TAdvance(sc))

tokenizeBlockString(sc) ==
    LET start == getPosition(sc)
        open == TAdvance(TAdvance(TAdvance(sc)))
        contentStart == open.index
        at == ScanBlockString(open)
        closed == TAdvance(TAdvance(TAdvance(at)))
    IN  IF ~TIsAtEnd(at)
        THEN Scanned(closed,
                     <<Token("blockString", Slice(contentStart, at.index),
                             start, getPosition(closed))>>,
                     <<>>)
        ELSE Scanned(at,
                     <<Token("blockString", Slice(contentStart, Len(source)),
                             start, getPosition(at))>>,
                     <<Diagnostic(start, getPosition(at),
                                  "Unterminated block string.", SEVERITY.ERROR)>>)

\* the scanner where the loop of tokenizeString stops: at the closing quote,
\* at an unescaped newline, or at the end of the source
RECURSIVE ScanString(_)
ScanString(sc) ==
    IF TIsAtEnd(sc) THEN sc
    ELSE LET ch == TPeek(sc, 0)
         IN  IF ch = "\"" \/ ch = "\n" THEN sc
             ELSE IF ch = "\\"
                  THEN LET esc == TAdvance(sc)
                       IN  ScanString(IF ~TIsAtEnd(esc) THEN TAdvance(esc) ELSE esc)
                  ELSE ScanString(TAdvance(sc))

tokenizeString(sc) ==
    LET start == getPosition(sc)
        open == TAdvance(sc)
        contentStart == open.index
        at == ScanString(open)
        closed == TAdvance(at)
        unterminated ==
            Diagnostic(start, getPosition(at), "Unterminated string literal.",
                       SEVERITY.ERROR)
        multiline ==
            Diagnostic(start, getPosition(at),
                       "String literals cannot span multiple lines; use triple quotes.",
                       SEVERITY.ERROR)
    IN  IF ~TIsAtEnd(at) /\ TPeek(at, 0) = "\""
        THEN Scanned(closed,
                     <<Token("string", Slice(contentStart, at.index),
                             start, getPosition(closed))>>,
                     <<>>)
        ELSE Scanned(at,
                     <<Token("string", Slice(contentStart, at.index),
                             start, getPosition(at))>>,
                     IF ~TIsAtEnd(at) THEN <<multiline, unterminated>>
                     ELSE <<unterminated>>)

tokenizePunctuation(sc, ch) ==
    LET start == getPosition(sc)
    IN  Scanned(TAdvance(sc),
                <<Token(ch, <<ch>>, start,
                        [line |-> start.line, character |-> start.character + 1])>>,
                <<>>)

UnexpectedCharacter(sc, ch) ==
    Scanned(TAdvance(sc), <<>>,
            <<Diagnostic(getPosition(sc), getPosition(TAdvance(sc)),
                         "Unexpected character '" \o ch \o "'.", SEVERITY.ERROR)>>)

TokenizeStep(r) ==
    /\ index' = r.sc.index
    /\ line' = r.sc.line
    /\ character' = r.sc.character
    /\ tokens' = tokens \o r.toks
    /\ lexDiagnostics' = lexDiagnostics \o r.diags
    /\ steps' = steps + 1
    /\ UNCHANGED <<source, currentIndex, diagnostics, context, locals, pc, ret,
                   raised, run, prevSource, prevResult>>

\* the iterations of the loop of tokenize(), by the character found after the trivia
TokenizeIdentifier ==
    /\ pc = "tokenize"
    /\ LET sc == skipTrivia(Scanner)
       IN  /\ ~TIsAtEnd(sc)
           /\ isIdentifierStart(TPeek(sc, 0))
           /\ TokenizeStep(tokenizeIdentifier(sc))

TokenizeNumber ==
    /\ pc = "tokenize"
    /\ LET sc == skipTrivia(Scanner)
       IN  /\ ~TIsAtEnd(sc)
           /\ isDigit(TPeek(sc, 0))
           /\ TokenizeStep(tokenizeNumber(sc))

TokenizeBlockString ==
    /\ pc = "tokenize"
    /\ LET sc == skipTrivia(Scanner)
       IN  /\ ~TIsAtEnd(sc)
           /\ IsTripleQuote(sc)
           /\ TokenizeStep(tokenizeBlockString(sc))

TokenizeString ==
    /\ pc = "tokenize"
    /\ LET sc == skipTrivia(Scanner)
       IN  /\ ~TIsAtEnd(sc)
           /\ TPeek(sc, 0) = "\""
           /\ ~IsTripleQuote(sc)
           /\ TokenizeStep(tokenizeString(sc))

TokenizePunctuation ==
    /\ pc = "tokenize"
    /\ LET sc == skipTrivia(Scanner)
       IN  /\ ~TIsAtEnd(sc)
           /\ TPeek(sc, 0) \in Punctuation
           /\ TokenizeStep(tokenizePunctuation(sc, TPeek(sc, 0)))

TokenizeUnexpected ==
    /\ pc = "tokenize"
    /\ LET sc == skipTrivia(Scanner)
           ch == TPeek(sc, 0)
       IN  /\ ~TIsAtEnd(sc)
           /\ ~isIdentifierStart(ch) /\ ~isDigit(ch) /\ ch # "\""
           /\ ch \notin Punctuation
           /\ TokenizeStep(UnexpectedCharacter(sc, ch))

-----------------------------------------------------------------------------
(* Parser: construction *)

NullTok == Token("null", <<>>, [line |-> 0, character |-> 0], [line |-> 0, character |-> 0])
Undefined == Token("undefined", <<>>, [line |-> 0, character |-> 0], [line |-> 0, character |-> 0])

EmptyMap == [n \in {} |-> NullTok]

NewContext ==
    [julietDeclared |-> FALSE, policies |-> EmptyMap, rubrics |-> EmptyMap,
     cadences |-> EmptyMap, artifacts |-> EmptyMap]

NoLocals ==
    [name |-> NullTok, criteria |-> {}, tiebreakers |-> <<>>,
     hasVariants |-> FALSE, hasSprints |-> FALSE, artifact |-> NullTok,
     listStart |-> NullTok, seenPaths |-> {}, pathCount |-> 0, seenKeys |-> {}]

\* a constructor that keeps the tables of the previous parser
NewParserSharingContext(initialDiagnostics) ==
    [currentIndex |-> 0, diagnostics |-> initialDiagnostics, context |-> context]

\* new Parser(tokens, initialDiagnostics): the fields the constructor sets
NewParser(initialDiagnostics) ==
    [currentIndex |-> 0, diagnostics |-> initialDiagnostics, context |-> NewContext]

\* an end of tokenize() that takes the eof position before the trailing trivia
TokenizeEofBeforeTrivia ==
    /\ pc = "tokenize"
    /\ LET sc == skipTrivia(Scanner)
           eofPos == getPosition(Scanner)
       IN  /\ TIsAtEnd(sc)
           /\ index' = sc.index
           /\ line' = sc.line
           /\ character' = sc.character
           /\ tokens' = Append(tokens, Token("eof", <<>>, eofPos, eofPos))
    /\ LET parser == NewParser(lexDiagnostics)
       IN  /\ currentIndex' = parser.currentIndex
           /\ diagnostics' = parser.diagnostics
           /\ context' = parser.context
    /\ locals' = NoLocals
    /\ pc' = "parse"
    /\ steps' = steps + 1
    /\ UNCHANGED <<source, lexDiagnostics, ret, raised, run, prevSource, prevResult>>

\* the end of tokenize(): the eof token is pushed, and lintJulietScript
\* constructs the Parser on the tokens and the lexical diagnostics
TokenizeEof ==
    /\ pc = "tokenize"
    /\ LET sc == skipTrivia(Scanner)
           eofPos == getPosition(sc)
       IN  /\ TIsAtEnd(sc)
           /\ index' = sc.index
           /\ line' = sc.line
           /\ character' = sc.character
           /\ tokens' = Append(tokens, Token("eof", <<>>, eofPos, eofPos))
    /\ LET parser == NewParser(lexDiagnostics)
       IN  /\ currentIndex' = parser.currentIndex
           /\ diagnostics' = parser.diagnostics
           /\ context' = parser.context
    /\ locals' = NoLocals
    /\ pc' = "parse"
    /\ steps' = steps + 1
    /\ UNCHANGED <<source, lexDiagnostics, ret, raised, run, prevSource, prevResult>>

-----------------------------------------------------------------------------
(* Parser: the cursor and the reports.  A parser state p carries the fields  *)
(* a production changes; tok is the value the last call returned.           *)

Parser ==
    [i |-> currentIndex, d |-> diagnostics, ctx |-> context, loc |-> locals,
     pc |-> pc, ret |-> ret, tok |-> NullTok, ok |-> TRUE]

\* tokens[k]; outside the list JavaScript yields undefined
TokenAt(k) == IF k \in 0..(Len(tokens) - 1) THEN tokens[k + 1] ELSE Undefined

current(p) == TokenAt(p.i)
previous(p) == TokenAt(p.i - 1)

Min(a, b) == IF a <= b THEN a ELSE b

peek(p) == TokenAt(Min(p.i + 1, Len(tokens) - 1))

isAtEnd(p) == current(p).kind = "eof"

check(p, kind) == current(p).kind = kind
checkNext(p, kind) == peek(p).kind = kind
checkKeyword(p, keyword) == check(p, "identifier") /\ current(p).value = keyword

\* a property read of undefined or null throws a TypeError
Throw(p) == [p EXCEPT !.ok = FALSE]

\* an advance that moves the cursor also when it is on eof
advanceUnguarded(p) ==
    IF ~p.ok THEN p
    ELSE IF current(p) = Undefined THEN Throw(p)
    ELSE [p EXCEPT !.i = p.i + 1, !.tok = TokenAt(p.i)]

advance(p) ==
    IF ~p.ok THEN p
    ELSE IF current(p) = Undefined THEN Throw(p)
    ELSE LET next == IF ~isAtEnd(p) THEN p.i + 1 ELSE p.i
         IN  [p EXCEPT !.i = next, !.tok = TokenAt(next - 1)]

\* a report that gives the diagnostic the empty range at the start of the token
reportTokenStart(p, token, message, severity) ==
    IF ~p.ok THEN p
    ELSE IF token \in {Undefined, NullTok} THEN Throw(p)
    ELSE [p EXCEPT !.d = Append(@, Diagnostic(token.start, token.start, message, severity))]

reportToken(p, token, message, severity) ==
    IF ~p.ok THEN p
    ELSE IF token \in {Undefined, NullTok} THEN Throw(p)
    ELSE [p EXCEPT !.d = Append(@, Diagnostic(token.start, token.end, message, severity))]

\* a report that reads the token after the current one, without peek's clamp
reportNext(p, message, severity) == reportToken(p, TokenAt(p.i + 1), message, severity)

reportCurrent(p, message, severity) == reportToken(p, current(p), message, severity)

reportPrevious(p, message, severity) == reportToken(p, previous(p), message, severity)

\* return null
Null(p) == [p EXCEPT !.tok = NullTok]

\* an expect that skips the token it rejects
expectConsuming(p, kind, message) ==
    IF check(p, kind) THEN advance(p)
    ELSE Null(advance(reportCurrent(p, message, SEVERITY.ERROR)))

expect(p, kind, message) ==
    IF check(p, kind) THEN advance(p)
    ELSE Null(reportCurrent(p, message, SEVERITY.ERROR))

expectKeyword(p, keyword, message) ==
    IF checkKeyword(p, keyword) THEN advance(p)
    ELSE Null(reportCurrent(p, message, SEVERITY.ERROR))

expectIdentifier(p, message) ==
    IF check(p, "identifier") THEN advance(p)
    ELSE Null(reportCurrent(p, message, SEVERITY.ERROR))

expectStringLiteral(p, message) ==
    IF check(p, "string") \/ check(p, "blockString") THEN advance(p)
    ELSE Null(reportCurrent(p, message, SEVERITY.ERROR))

expectValue(p, message) ==
    IF \/ check(p, "identifier") \/ check(p, "string")
       \/ check(p, "blockString") \/ check(p, "number")
    THEN advance(p)
    ELSE Null(reportCurrent(p, message, SEVERITY.ERROR))

expectEngineValue(p) ==
    IF check(p, "identifier") \/ check(p, "string") THEN advance(p)
    ELSE reportCurrent(p, "Expected engine value as an identifier or quoted string.",
                       SEVERITY.ERROR)

\* if (this.matchKeyword(keyword)) / if (this.match(kind)): the state after the test
matchKeyword(p, keyword) == IF checkKeyword(p, keyword) THEN advance(p) ELSE p
match(p, kind) == IF check(p, kind) THEN advance(p) ELSE p

Table(ctx, type) ==
    CASE type = "policy" -> ctx.policies
      [] type = "rubric" -> ctx.rubrics
      [] type = "cadence" -> ctx.cadences
      [] type = "artifact" -> ctx.artifacts

\* a lookup that searches every table
definitionExistsInAnyTable(ctx, type, name) ==
    \E t \in {"policy", "rubric", "cadence", "artifact"} : name \in DOMAIN Table(ctx, t)

definitionExists(ctx, type, name) ==
    IF type \in {"policy", "rubric", "cadence", "artifact"}
    THEN name \in DOMAIN Table(ctx, type)
    ELSE FALSE

\* a set that keeps the entry a name already has
MapSetIfAbsent(map, token) == map @@ (token.value :> token)

\* map.set(token.value, token)
MapSet(map, token) == (token.value :> token) @@ map

SetTable(ctx, label, map) ==
    CASE label = "policy" -> [ctx EXCEPT !.policies = map]
      [] label = "rubric" -> [ctx EXCEPT !.rubrics = map]
      [] label = "cadence" -> [ctx EXCEPT !.cadences = map]
      [] label = "artifact" -> [ctx EXCEPT !.artifacts = map]

\* a registration that tests the table after writing it
registerDefinitionSetFirst(p, token, label) ==
    LET map == MapSet(Table(p.ctx, label), token)
        q == IF token.value \in DOMAIN map
             THEN reportToken(p, token,
                              "Duplicate " \o label \o " '" \o Str(token.value) \o "'.",
                              SEVERITY.WARNING)
             ELSE p
    IN  [q EXCEPT !.ctx = SetTable(p.ctx, label, map)]

\* a registration that looks for the name in every table
registerDefinitionAcrossTables(p, token, label) ==
    LET map == Table(p.ctx, label)
        q == IF \E t \in {"policy", "rubric", "cadence", "artifact"} :
                    token.value \in DOMAIN Table(p.ctx, t)
             THEN reportToken(p, token,
                              "Duplicate " \o label \o " '" \o Str(token.value) \o "'.",
                              SEVERITY.WARNING)
             ELSE p
    IN  [q EXCEPT !.ctx = SetTable(p.ctx, label, MapSet(map, token))]

\* registerDefinition(this.context.<label's table>, token, label)
registerDefinition(p, token, label) ==
    LET map == Table(p.ctx, label)
        q == IF token.value \in DOMAIN map
             THEN reportToken(p, token,
                              "Duplicate " \o label \o " '" \o Str(token.value) \o "'.",
                              SEVERITY.WARNING)
             ELSE p
    IN  [q EXCEPT !.ctx = SetTable(p.ctx, label, MapSet(map, token))]

Goto(p, label) == [p EXCEPT !.pc = label]

\* the parser's fields after a step; an exception ends the invocation
Commit(p) ==
    /\ currentIndex' = p.i
    /\ diagnostics' = p.d
    /\ context' = p.ctx
    /\ locals' = p.loc
    /\ ret' = p.ret
    /\ raised' = ~p.ok
    /\ pc' = IF p.ok THEN p.pc ELSE "raised"
    /\ steps' = steps + 1
    /\ UNCHANGED <<tokenizerVars, callerVars>>

AtTopLevel == pc = "parse" /\ ~isAtEnd(Parser)

-----------------------------------------------------------------------------
(* Parser: synchronization *)

\* synchronizeTopLevel(), one iteration of its loop per step
SynchronizeTopLevelAdvance ==
    /\ pc = "syncTop"
    /\ ~isAtEnd(Parser)
    /\ ~check(Parser, ";")
    /\ ~(check(Parser, "identifier") /\ current(Parser).value \in TOP_LEVEL_KEYWORDS)
    /\ Commit(advance(Parser))

SynchronizeTopLevelReturn ==
    /\ pc = "syncTop"
    /\ \/ isAtEnd(Parser)
       \/ check(Parser, ";")
       \/ check(Parser, "identifier") /\ current(Parser).value \in TOP_LEVEL_KEYWORDS
    /\ Commit(Goto(IF ~isAtEnd(Parser) /\ check(Parser, ";") THEN advance(Parser)
                   ELSE Parser,
                   "parse"))

\* an iteration of synchronizeInBlock() that forgets to advance
SynchronizeInBlockStuck ==
    /\ pc = "syncBlock"
    /\ ~isAtEnd(Parser) /\ ~check(Parser, ";") /\ ~check(Parser, "}")
    /\ Commit(Parser)

\* synchronizeInBlock(), one iteration of its loop per step
SynchronizeInBlockAdvance ==
    /\ pc = "syncBlock"
    /\ ~isAtEnd(Parser) /\ ~check(Parser, ";") /\ ~check(Parser, "}")
    /\ Commit(advance(Parser))

\* a return from synchronizeInBlock() that also consumes the '}'
SynchronizeInBlockReturnPastBrace ==
    /\ pc = "syncBlock"
    /\ isAtEnd(Parser) \/ check(Parser, ";") \/ check(Parser, "}")
    /\ Commit(Goto(match(match(Parser, ";"), "}"), ret))

SynchronizeInBlockReturn ==
    /\ pc = "syncBlock"
    /\ isAtEnd(Parser) \/ check(Parser, ";") \/ check(Parser, "}")
    /\ Commit(Goto(match(Parser, ";"), ret))

-----------------------------------------------------------------------------
(* Parser: the dispatch loop of parse() and the productions.  An action of  *)
(* parse() matches the keyword and runs the production up to its first loop. *)

\* Number.parseInt(value, 10) of a number token
RECURSIVE ParseInt(_)
ParseInt(digits) ==
    IF digits = <<>> THEN 0
    ELSE 10 * ParseInt(SubSeq(digits, 1, Len(digits) - 1))
         + (CHOOSE n \in 0..9 : <<"0", "1", "2", "3", "4", "5", "6", "7", "8", "9">>[n + 1]
                                    = digits[Len(digits)])

\* value.length === 0, without the trim
IsEmptyUntrimmed(chars) == chars = <<>>

\* value.trim().length === 0
IsBlank(chars) == \A k \in 1..Len(chars) : chars[k] \in {" ", "\t", "\r", "\n"}

\* a juliet production that declares the block only when its '{' is there
ParseJulietDeclaringIfOpened ==
    /\ AtTopLevel
    /\ checkKeyword(Parser, Kw.juliet)
    /\ LET p1 == advance(Parser)
           p2 == IF p1.ctx.julietDeclared
                 THEN reportPrevious(p1, "Duplicate juliet block. Only one top-level juliet block is expected.",
                                     SEVERITY.WARNING)
                 ELSE p1
           p3 == [p2 EXCEPT !.ctx.julietDeclared = @ \/ check(p2, "{")]
       IN  Commit(Goto(expect(p3, "{", "Expected '{' after 'juliet'."), "julietLoop"))

ParseJuliet ==
    /\ AtTopLevel
    /\ checkKeyword(Parser, Kw.juliet)
    /\ LET p1 == advance(Parser)
           p2 == IF p1.ctx.julietDeclared
                 THEN reportPrevious(p1, "Duplicate juliet block. Only one top-level juliet block is expected.",
                                     SEVERITY.WARNING)
                 ELSE p1
           p3 == [p2 EXCEPT !.ctx.julietDeclared = TRUE]
       IN  Commit(Goto(expect(p3, "{", "Expected '{' after 'juliet'."), "julietLoop"))

InBlock(loop) == pc = loop /\ ~check(Parser, "}") /\ ~isAtEnd(Parser)
BlockEnds(loop) == pc = loop /\ (check(Parser, "}") \/ isAtEnd(Parser))

\* synchronizeInBlock() called from the block loop `loop`
synchronizeInBlock(p, loop) == [p EXCEPT !.pc = "syncBlock", !.ret = loop]

\* an assignment that checks the format of the value of the key project
JulietAssignmentCheckingProject ==
    /\ InBlock("julietLoop")
    /\ LET key == expectIdentifier(Parser, "Expected a key name in juliet block.")
           p1 == IF key.tok.value \notin JULIET_ALLOWED_KEYS
                 THEN reportToken(key, key.tok,
                                  "Unknown juliet key '" \o Str(key.tok.value)
                                      \o "'. Supported keys: engine.",
                                  SEVERITY.WARNING)
                 ELSE key
           p2 == expect(p1, "=", "Expected '=' after juliet key.")
           p3 == IF key.tok.value = Kw.engine THEN expectEngineValue(p2)
                 ELSE expectValue(p2, "Expected a value after '='.")
           p3b == IF /\ key.tok.value = <<"p", "r", "o", "j", "e", "c", "t">>
                     /\ p3.tok.kind = "string"
                     /\ \E i \in DOMAIN p3.tok.value :
                            p3.tok.value[i] \notin Letters \cup Digits \cup {"-", "_"}
                  THEN reportToken(p3, p3.tok,
                                   "Project value must use only letters, numbers, '-' or '_' (no spaces).",
                                   SEVERITY.ERROR)
                  ELSE p3
           p4 == expect(p3b, ";", "Expected ';' after juliet assignment.")
       IN  IF key.tok = NullTok THEN Commit(synchronizeInBlock(key, "julietLoop"))
           ELSE Commit(p4)

JulietAssignment ==
    /\ InBlock("julietLoop")
    /\ LET key == expectIdentifier(Parser, "Expected a key name in juliet block.")
           p1 == IF key.tok.value \notin JULIET_ALLOWED_KEYS
                 THEN reportToken(key, key.tok,
                                  "Unknown juliet key '" \o Str(key.tok.value)
                                      \o "'. Supported keys: engine.",
                                  SEVERITY.WARNING)
                 ELSE key
           p2 == expect(p1, "=", "Expected '=' after juliet key.")
           p3 == IF key.tok.value = Kw.engine THEN expectEngineValue(p2)
                 ELSE expectValue(p2, "Expected a value after '='.")
           p4 == expect(p3, ";", "Expected ';' after juliet assignment.")
       IN  IF key.tok = NullTok THEN Commit(synchronizeInBlock(key, "julietLoop"))
           ELSE Commit(p4)

JulietClose ==
    /\ BlockEnds("julietLoop")
    /\ Commit(Goto(expect(Parser, "}", "Expected '}' to close juliet block."), "parse"))

\* a policy production that registers the name after a well-formed body only
ParsePolicyRegisteringAfterBody ==
    /\ AtTopLevel
    /\ checkKeyword(Parser, Kw.policy)
    /\ LET name == expectIdentifier(advance(Parser), "Expected policy name.")
           p2 == expect(name, "=", "Expected '=' after policy name.")
           p3 == expectStringLiteral(p2, "Expected a string or triple-quoted block string for policy body.")
           p4 == expect(p3, ";", "Expected ';' after policy declaration.")
       IN  IF name.tok = NullTok THEN Commit(Goto(name, "syncTop"))
           ELSE IF p2.tok = NullTok \/ p3.tok = NullTok \/ p4.tok = NullTok THEN Commit(p4)
           ELSE Commit(registerDefinition(p4, name.tok, "policy"))

ParsePolicy ==
    /\ AtTopLevel
    /\ checkKeyword(Parser, Kw.policy)
    /\ LET name == expectIdentifier(advance(Parser), "Expected policy name.")
           p1 == registerDefinition(name, name.tok, "policy")
           p2 == expect(p1, "=", "Expected '=' after policy name.")
           p3 == expectStringLiteral(p2, "Expected a string or triple-quoted block string for policy body.")
           p4 == expect(p3, ";", "Expected ';' after policy declaration.")
       IN  IF name.tok = NullTok THEN Commit(Goto(name, "syncTop"))
           ELSE Commit(p4)

\* a rubric whose criteria set is the one of the rubric before it
ParseRubricKeepingCriteria ==
    /\ AtTopLevel
    /\ checkKeyword(Parser, Kw.rubric)
    /\ LET name == expectIdentifier(advance(Parser), "Expected rubric name.")
           p1 == registerDefinition(name, name.tok, "rubric")
           p2 == expect(p1, "{", "Expected '{' after rubric name.")
           p3 == [p2 EXCEPT !.loc.tiebreakers = <<>>]
       IN  IF name.tok = NullTok THEN Commit(Goto(name, "syncTop"))
           ELSE Commit(Goto(p3, "rubricLoop"))

ParseRubric ==
    /\ AtTopLevel
    /\ checkKeyword(Parser, Kw.rubric)
    /\ LET name == expectIdentifier(advance(Parser), "Expected rubric name.")
           p1 == registerDefinition(name, name.tok, "rubric")
           p2 == expect(p1, "{", "Expected '{' after rubric name.")
           p3 == [p2 EXCEPT !.loc = [NoLocals EXCEPT !.criteria = {}, !.tiebreakers = <<>>]]
       IN  IF name.tok = NullTok THEN Commit(Goto(name, "syncTop"))
           ELSE Commit(Goto(p3, "rubricLoop"))

RubricCriterion ==
    /\ InBlock("rubricLoop")
    /\ checkKeyword(Parser, Kw.criterion)
    /\ LET criterionLabel == expectStringLiteral(advance(Parser), "Expected criterion name string.")
           p1 == IF criterionLabel.tok # NullTok
                 THEN [criterionLabel EXCEPT !.loc.criteria = @ \cup {criterionLabel.tok.value}]
                 ELSE criterionLabel
           p2 == expectKeyword(p1, Kw.points, "Expected 'points' after criterion label.")
           points == expect(p2, "number", "Expected integer points value.")
           p3 == IF points.tok # NullTok /\ ParseInt(points.tok.value) <= 0
                 THEN reportToken(points, points.tok, "Criterion points should be a positive integer.",
                                  SEVERITY.WARNING)
                 ELSE points
           criterionMeaning == expectStringLiteral(advance(p3), "Expected criterion meaning string after 'means'.")
           p4 == IF checkKeyword(p3, Kw.means)
                 THEN IF criterionMeaning.tok # NullTok /\ IsBlank(criterionMeaning.tok.value)
                      THEN reportToken(criterionMeaning, criterionMeaning.tok,
                                       "Criterion meaning should not be empty.", SEVERITY.WARNING)
                      ELSE criterionMeaning
                 ELSE p3
       IN  Commit(expect(p4, ";", "Expected ';' after criterion definition."))

\* the end of the tiebreakers statement, after its list
TiebreakersEnd(p) ==
    Goto(expect(expect(p, "]", "Expected ']' after tiebreakers list."),
                ";", "Expected ';' after tiebreakers statement."),
         "rubricLoop")

RubricTiebreakers ==
    /\ InBlock("rubricLoop")
    /\ checkKeyword(Parser, Kw.tiebreakers)
    /\ LET p1 == expect(advance(Parser), "[", "Expected '[' after tiebreakers.")
       IN  IF ~check(p1, "]") THEN Commit(Goto(p1, "tiebreakersList"))
           ELSE Commit(TiebreakersEnd(p1))

\* one iteration of the while (true) loop of the tiebreakers list
TiebreakersItem ==
    /\ pc = "tiebreakersList"
    /\ LET criterionName == expectStringLiteral(Parser, "Expected criterion name in tiebreakers list.")
           p1 == IF criterionName.tok # NullTok
                 THEN [criterionName EXCEPT !.loc.tiebreakers = Append(@, criterionName.tok)]
                 ELSE criterionName
       IN  IF check(p1, ",") THEN Commit(advance(p1))
           ELSE Commit(TiebreakersEnd(p1))

RubricOther ==
    /\ InBlock("rubricLoop")
    /\ ~checkKeyword(Parser, Kw.criterion)
    /\ ~checkKeyword(Parser, Kw.tiebreakers)
    /\ Commit(synchronizeInBlock(
                  reportCurrent(Parser, "Expected 'criterion' or 'tiebreakers' inside rubric block.",
                                SEVERITY.ERROR),
                  "rubricLoop"))

\* for (const tiebreaker of tiebreakers): the reports of the first k of them
RECURSIVE CheckTiebreakers(_, _)
CheckTiebreakers(p, k) ==
    IF k = 0 THEN p
    ELSE LET q == CheckTiebreakers(p, k - 1)
             tiebreaker == p.loc.tiebreakers[k]
         IN  IF tiebreaker.value \notin p.loc.criteria
             THEN reportToken(q, tiebreaker,
                              "Tiebreaker '" \o Str(tiebreaker.value)
                                  \o "' does not match any declared rubric criterion.",
                              SEVERITY.WARNING)
             ELSE q

RubricClose ==
    /\ BlockEnds("rubricLoop")
    /\ LET p1 == expect(Parser, "}", "Expected '}' to close rubric block.")
       IN  Commit(Goto(CheckTiebreakers(p1, Len(p1.loc.tiebreakers)), "parse"))

ParseCadence ==
    /\ AtTopLevel
    /\ checkKeyword(Parser, Kw.cadence)
    /\ LET name == expectIdentifier(advance(Parser), "Expected cadence name.")
           p1 == registerDefinition(name, name.tok, "cadence")
           p2 == expect(p1, "{", "Expected '{' after cadence name.")
           p3 == [p2 EXCEPT !.loc = [NoLocals EXCEPT !.name = name.tok,
                                                      !.hasVariants = FALSE,
                                                      !.hasSprints = FALSE]]
       IN  IF name.tok = NullTok THEN Commit(Goto(name, "syncTop"))
           ELSE Commit(Goto(p3, "cadenceLoop"))

CadenceCompare ==
    /\ InBlock("cadenceLoop")
    /\ checkKeyword(Parser, Kw.compare)
    /\ LET p1 == expectKeyword(advance(Parser), Kw.using, "Expected 'using' after 'compare'.")
           rubricName == expectIdentifier(p1, "Expected rubric name after 'compare using'.")
           p2 == IF rubricName.tok # NullTok
                    /\ rubricName.tok.value \notin DOMAIN rubricName.ctx.rubrics
                 THEN reportToken(rubricName, rubricName.tok,
                                  "Unknown rubric '" \o Str(rubricName.tok.value)
                                      \o "' in cadence compare action.",
                                  SEVERITY.ERROR)
                 ELSE rubricName
       IN  Commit(expect(p2, ";", "Expected ';' after compare statement."))

\* a keep action that accepts the limit 0
CadenceKeepAllowingZero ==
    /\ InBlock("cadenceLoop")
    /\ ~checkKeyword(Parser, Kw.compare)
    /\ checkKeyword(Parser, Kw.keep)
    /\ LET p1 == expectKeyword(advance(Parser), Kw.best, "Expected 'best' after 'keep'.")
           keepCount == expect(p1, "number", "Expected integer keep limit after 'keep best'.")
           p2 == IF keepCount.tok # NullTok /\ ParseInt(keepCount.tok.value) < 0
                 THEN reportToken(keepCount, keepCount.tok,
                                  "'keep best' value should be greater than 0.", SEVERITY.ERROR)
                 ELSE keepCount
       IN  Commit(expect(p2, ";", "Expected ';' after keep statement."))

\* a keep action whose limit may be left out
CadenceKeepOptionalLimit ==
    /\ InBlock("cadenceLoop")
    /\ ~checkKeyword(Parser, Kw.compare)
    /\ checkKeyword(Parser, Kw.keep)
    /\ LET p1 == expectKeyword(advance(Parser), Kw.best, "Expected 'best' after 'keep'.")
           keepCount == IF check(p1, ";") THEN Null(p1)
                        ELSE expect(p1, "number", "Expected integer keep limit after 'keep best'.")
           p2 == IF keepCount.tok # NullTok /\ ParseInt(keepCount.tok.value) <= 0
                 THEN reportToken(keepCount, keepCount.tok,
                                  "'keep best' value should be greater than 0.", SEVERITY.ERROR)
                 ELSE keepCount
       IN  Commit(expect(p2, ";", "Expected ';' after keep statement."))

CadenceKeep ==
    /\ InBlock("cadenceLoop")
    /\ ~checkKeyword(Parser, Kw.compare)
    /\ checkKeyword(Parser, Kw.keep)
    /\ LET p1 == expectKeyword(advance(Parser), Kw.best, "Expected 'best' after 'keep'.")
           keepCount == expect(p1, "number", "Expected integer keep limit after 'keep best'.")
           p2 == IF keepCount.tok # NullTok /\ ParseInt(keepCount.tok.value) <= 0
                 THEN reportToken(keepCount, keepCount.tok,
                                  "'keep best' value should be greater than 0.", SEVERITY.ERROR)
                 ELSE keepCount
       IN  Commit(expect(p2, ";", "Expected ';' after keep statement."))

\* an assignment that marks its key as seen only when the value is accepted
CadenceAssignmentSeenIfAccepted ==
    /\ InBlock("cadenceLoop")
    /\ ~checkKeyword(Parser, Kw.compare)
    /\ ~checkKeyword(Parser, Kw.keep)
    /\ check(Parser, "identifier") /\ checkNext(Parser, "=")
    /\ LET key == advance(Parser)
           p1 == advance(key)
           value == expect(p1, "number",
                           "Expected an integer for cadence key '" \o Str(key.tok.value) \o "'.")
           p2 == IF value.tok # NullTok /\ ParseInt(value.tok.value) <= 0
                 THEN reportToken(value, value.tok,
                                  "Cadence '" \o Str(key.tok.value) \o "' should be greater than 0.",
                                  SEVERITY.ERROR)
                 ELSE value
           accepted == value.tok # NullTok /\ ParseInt(value.tok.value) > 0
           p3 == [p2 EXCEPT !.loc.hasVariants = @ \/ (accepted /\ key.tok.value = Kw.variants),
                            !.loc.hasSprints = @ \/ (accepted /\ key.tok.value = Kw.sprints)]
           p4 == IF key.tok.value = Kw.engine THEN expectEngineValue(p1)
                 ELSE IF key.tok.value \in {Kw.variants, Kw.sprints} THEN p3
                 ELSE expectValue(
                          reportToken(p1, key.tok,
                                      "Unknown cadence key '" \o Str(key.tok.value)
                                          \o "'. Supported keys: engine, variants, sprints.",
                                      SEVERITY.WARNING),
                          "Expected a value after cadence assignment.")
       IN  Commit(expect(p4, ";", "Expected ';' after cadence assignment."))

CadenceAssignment ==
    /\ InBlock("cadenceLoop")
    /\ ~checkKeyword(Parser, Kw.compare)
    /\ ~checkKeyword(Parser, Kw.keep)
    /\ check(Parser, "identifier") /\ checkNext(Parser, "=")
    /\ LET key == advance(Parser)
           p1 == advance(key)
           value == expect(p1, "number",
                           "Expected an integer for cadence key '" \o Str(key.tok.value) \o "'.")
           p2 == IF value.tok # NullTok /\ ParseInt(value.tok.value) <= 0
                 THEN reportToken(value, value.tok,
                                  "Cadence '" \o Str(key.tok.value) \o "' should be greater than 0.",
                                  SEVERITY.ERROR)
                 ELSE value
           p3 == [p2 EXCEPT !.loc.hasVariants = @ \/ key.tok.value = Kw.variants,
                            !.loc.hasSprints = @ \/ key.tok.value = Kw.sprints]
           p4 == IF key.tok.value = Kw.engine THEN expectEngineValue(p1)
                 ELSE IF key.tok.value \in {Kw.variants, Kw.sprints} THEN p3
                 ELSE expectValue(
                          reportToken(p1, key.tok,
                                      "Unknown cadence key '" \o Str(key.tok.value)
                                          \o "'. Supported keys: engine, variants, sprints.",
                                      SEVERITY.WARNING),
                          "Expected a value after cadence assignment.")
       IN  Commit(expect(p4, ";", "Expected ';' after cadence assignment."))

CadenceOther ==
    /\ InBlock("cadenceLoop")
    /\ ~checkKeyword(Parser, Kw.compare)
    /\ ~checkKeyword(Parser, Kw.keep)
    /\ ~(check(Parser, "identifier") /\ checkNext(Parser, "="))
    /\ Commit(synchronizeInBlock(
                  reportCurrent(Parser, "Expected cadence assignment or action (compare/keep).",
                                SEVERITY.ERROR),
                  "cadenceLoop"))

CadenceClose ==
    /\ BlockEnds("cadenceLoop")
    /\ LET p1 == expect(Parser, "}", "Expected '}' to close cadence block.")
           p2 == IF ~p1.loc.hasVariants
                 THEN reportToken(p1, p1.loc.name, "Cadence is missing required key 'variants'.",
                                  SEVERITY.WARNING)
                 ELSE p1
           p3 == IF ~p2.loc.hasSprints
                 THEN reportToken(p2, p2.loc.name, "Cadence is missing required key 'sprints'.",
                                  SEVERITY.WARNING)
                 ELSE p2
       IN  Commit(Goto(p3, "parse"))

\* an end of parseCreate() that registers the artifact only when the ';' is there
CreateEndIfTerminated(p) ==
    LET q == expect(p, ";", "Expected ';' after create statement.")
    IN  Goto(IF check(p, ";") THEN registerDefinition(q, p.loc.artifact, "artifact") ELSE q,
             "parse")

\* the end of parseCreate(), after the optional with-block
CreateEnd(p) ==
    Goto(registerDefinition(expect(p, ";", "Expected ';' after create statement."),
                            p.loc.artifact, "artifact"),
         "parse")

\* parseCreate() from  if (this.matchKeyword("with"))
CreateWith(p) ==
    IF checkKeyword(p, Kw.with)
    THEN Goto([expect(advance(p), "{", "Expected '{' to begin create attachments block.")
                  EXCEPT !.loc.seenKeys = {}],
              "withLoop")
    ELSE CreateEnd(p)

\* the end of parseCreateUsingList(), after its list
UsingEnd(p) == CreateWith(expect(p, "]", "Expected ']' after using list."))

\* parseCreate() from  if (this.matchKeyword("using"))
CreateUsing(p) ==
    IF checkKeyword(p, Kw.using)
    THEN LET p1 == expect(advance(p), "[", "Expected '[' after 'using'.")
         IN  IF ~check(p1, "]") THEN Goto(p1, "usingList") ELSE UsingEnd(p1)
    ELSE CreateWith(p)

\* the end of parseCreateSourceFilesList(), after its list
\* the end of the list without the check of the path count
SourceFilesEndUnchecked(p) ==
    CreateUsing(expect(p, "]", "Expected ']' after source files list."))

SourceFilesEnd(p) ==
    LET p1 == expect(p, "]", "Expected ']' after source files list.")
        p2 == IF p1.loc.pathCount = 0
              THEN reportToken(p1,
                               IF p1.loc.listStart # NullTok THEN p1.loc.listStart
                               ELSE previous(p1),
                               "Expected at least one file path in julietArtifactSourceFiles list.",
                               SEVERITY.ERROR)
              ELSE p1
    IN  CreateUsing(p2)

\* a create production that registers the artifact when it reads the name
ParseCreateRegisteringFirst ==
    /\ AtTopLevel
    /\ checkKeyword(Parser, Kw.create)
    /\ LET artifact == expectIdentifier(advance(Parser), "Expected artifact name after 'create'.")
           p1 == registerDefinition([artifact EXCEPT !.loc = [NoLocals EXCEPT !.artifact = artifact.tok]],
                                     artifact.tok, "artifact")
           p2 == expectKeyword(p1, Kw.from, "Expected 'from' after artifact name.")
           listStart == expect(advance(p2), "[", "Expected '[' after 'julietArtifactSourceFiles'.")
           p3 == [listStart EXCEPT !.loc.listStart = listStart.tok,
                                   !.loc.seenPaths = {},
                                   !.loc.pathCount = 0]
       IN  IF artifact.tok = NullTok THEN Commit(Goto(artifact, "syncTop"))
           ELSE IF checkKeyword(p2, Kw.juliet)
                THEN Commit(CreateUsing(
                         expectStringLiteral(advance(p2), "Expected prompt string after 'from juliet'.")))
           ELSE IF checkKeyword(p2, Kw.julietArtifactSourceFiles)
                THEN IF ~check(p3, "]") THEN Commit(Goto(p3, "sourceFilesList"))
                     ELSE Commit(SourceFilesEnd(p3))
           ELSE Commit(CreateUsing(
                    reportCurrent(p2, "Expected 'juliet' or 'julietArtifactSourceFiles' after 'from'.",
                                  SEVERITY.ERROR)))

\* a create production that takes the juliet of its source for a juliet block
ParseCreateDeclaringJuliet ==
    /\ AtTopLevel
    /\ checkKeyword(Parser, Kw.create)
    /\ LET artifact == expectIdentifier(advance(Parser), "Expected artifact name after 'create'.")
           p1 == [artifact EXCEPT !.loc = [NoLocals EXCEPT !.artifact = artifact.tok]]
           p2 == expectKeyword(p1, Kw.from, "Expected 'from' after artifact name.")
           listStart == expect(advance(p2), "[", "Expected '[' after 'julietArtifactSourceFiles'.")
           p3 == [listStart EXCEPT !.loc.listStart = listStart.tok,
                                   !.loc.seenPaths = {},
                                   !.loc.pathCount = 0]
       IN  IF artifact.tok = NullTok THEN Commit(Goto(artifact, "syncTop"))
           ELSE IF checkKeyword(p2, Kw.juliet)
                THEN Commit(CreateUsing(
                         expectStringLiteral([advance(p2) EXCEPT !.ctx.julietDeclared = TRUE],
                                             "Expected prompt string after 'from juliet'.")))
           ELSE IF checkKeyword(p2, Kw.julietArtifactSourceFiles)
                THEN IF ~check(p3, "]") THEN Commit(Goto(p3, "sourceFilesList"))
                     ELSE Commit(SourceFilesEnd(p3))
           ELSE Commit(CreateUsing(
                    reportCurrent(p2, "Expected 'juliet' or 'julietArtifactSourceFiles' after 'from'.",
                                  SEVERITY.ERROR)))

ParseCreate ==
    /\ AtTopLevel
    /\ checkKeyword(Parser, Kw.create)
    /\ LET artifact == expectIdentifier(advance(Parser), "Expected artifact name after 'create'.")
           p1 == [artifact EXCEPT !.loc = [NoLocals EXCEPT !.artifact = artifact.tok]]
           p2 == expectKeyword(p1, Kw.from, "Expected 'from' after artifact name.")
           listStart == expect(advance(p2), "[", "Expected '[' after 'julietArtifactSourceFiles'.")
           p3 == [listStart EXCEPT !.loc.listStart = listStart.tok,
                                   !.loc.seenPaths = {},
                                   !.loc.pathCount = 0]
       IN  IF artifact.tok = NullTok THEN Commit(Goto(artifact, "syncTop"))
           ELSE IF checkKeyword(p2, Kw.juliet)
                THEN Commit(CreateUsing(
                         expectStringLiteral(advance(p2), "Expected prompt string after 'from juliet'.")))
           ELSE IF checkKeyword(p2, Kw.julietArtifactSourceFiles)
                THEN IF ~check(p3, "]") THEN Commit(Goto(p3, "sourceFilesList"))
                     ELSE Commit(SourceFilesEnd(p3))
           ELSE Commit(CreateUsing(
                    reportCurrent(p2, "Expected 'juliet' or 'julietArtifactSourceFiles' after 'from'.",
                                  SEVERITY.ERROR)))

\* one iteration of the while (true) loop of parseCreateSourceFilesList()
SourceFilesItem ==
    /\ pc = "sourceFilesList"
    /\ LET sourcePath == expect(Parser, "string", "Expected quoted file path in source files list.")
           p1 == IF sourcePath.tok.value \in sourcePath.loc.seenPaths
                 THEN reportToken(sourcePath, sourcePath.tok,
                                  "Duplicate source file path '" \o Str(sourcePath.tok.value)
                                      \o "' in julietArtifactSourceFiles list.",
                                  SEVERITY.WARNING)
                 ELSE sourcePath
           p2 == IF sourcePath.tok # NullTok
                 THEN [p1 EXCEPT !.loc.pathCount = @ + 1,
                                 !.loc.seenPaths = @ \cup {sourcePath.tok.value}]
                 ELSE sourcePath
       IN  IF check(p2, ",") THEN Commit(advance(p2))
           ELSE Commit(SourceFilesEnd(p2))

\* one iteration of the while (true) loop of parseCreateUsingList()
UsingItem ==
    /\ pc = "usingList"
    /\ LET dependency == expectIdentifier(Parser, "Expected artifact name in 'using' list.")
           p1 == IF dependency.tok # NullTok
                    /\ dependency.tok.value \notin DOMAIN dependency.ctx.artifacts
                 THEN reportToken(dependency, dependency.tok,
                                  "Unknown artifact '" \o Str(dependency.tok.value)
                                      \o "' in using list.",
                                  SEVERITY.ERROR)
                 ELSE dependency
       IN  IF check(p1, ",") THEN Commit(advance(p1))
           ELSE Commit(UsingEnd(p1))

\* one iteration of the block loop of parseCreateAttachments()
\* an attachment that resolves the name of an unknown key as a policy
CreateAttachmentResolvingUnknownKeys ==
    /\ InBlock("withLoop")
    /\ LET key == expectIdentifier(Parser, "Expected attachment key in create with-block.")
           p1 == IF key.tok.value \in key.loc.seenKeys
                 THEN reportToken(key, key.tok,
                                  "Duplicate create attachment '" \o Str(key.tok.value) \o "'.",
                                  SEVERITY.WARNING)
                 ELSE key
           p2 == [p1 EXCEPT !.loc.seenKeys = @ \cup {key.tok.value}]
           p3 == expect(p2, "=", "Expected '=' after create attachment key.")
           value == expectIdentifier(p3, "Expected reference name after '='.")
           p4 == expect(value, ";", "Expected ';' after create attachment.")
           known == key.tok.value \in DOMAIN CREATE_ALLOWED_KEYS
           type == IF known THEN CREATE_ALLOWED_KEYS[key.tok.value] ELSE "policy"
           p5 == IF known THEN p4
                 ELSE reportToken(p4, key.tok,
                                  "Unknown create attachment key '" \o Str(key.tok.value)
                                      \o "'. Supported keys: preflight, failureTriage, cadence, rubric.",
                                  SEVERITY.WARNING)
       IN  IF key.tok = NullTok THEN Commit(synchronizeInBlock(key, "withLoop"))
           ELSE IF value.tok = NullTok THEN Commit(p5)
           ELSE IF ~definitionExists(p5.ctx, type, value.tok.value)
                THEN Commit(reportToken(p5, value.tok,
                                        "Unknown " \o type \o " '" \o Str(value.tok.value)
                                            \o "' referenced by '" \o Str(key.tok.value) \o "'.",
                                        SEVERITY.ERROR))
           ELSE Commit(p5)

CreateAttachment ==
    /\ InBlock("withLoop")
    /\ LET key == expectIdentifier(Parser, "Expected attachment key in create with-block.")
           p1 == IF key.tok.value \in key.loc.seenKeys
                 THEN reportToken(key, key.tok,
                                  "Duplicate create attachment '" \o Str(key.tok.value) \o "'.",
                                  SEVERITY.WARNING)
                 ELSE key
           p2 == [p1 EXCEPT !.loc.seenKeys = @ \cup {key.tok.value}]
           p3 == expect(p2, "=", "Expected '=' after create attachment key.")
           value == expectIdentifier(p3, "Expected reference name after '='.")
           p4 == expect(value, ";", "Expected ';' after create attachment.")
           type == CREATE_ALLOWED_KEYS[key.tok.value]
       IN  IF key.tok = NullTok THEN Commit(synchronizeInBlock(key, "withLoop"))
           ELSE IF key.tok.value \notin DOMAIN CREATE_ALLOWED_KEYS
                THEN Commit(reportToken(p4, key.tok,
                                        "Unknown create attachment key '" \o Str(key.tok.value)
                                            \o "'. Supported keys: preflight, failureTriage, cadence, rubric.",
                                        SEVERITY.WARNING))
           ELSE IF value.tok = NullTok THEN Commit(p4)
           ELSE IF ~definitionExists(p4.ctx, type, value.tok.value)
                THEN Commit(reportToken(p4, value.tok,
                                        "Unknown " \o type \o " '" \o Str(value.tok.value)
                                            \o "' referenced by '" \o Str(key.tok.value) \o "'.",
                                        SEVERITY.ERROR))
           ELSE Commit(p4)

AttachmentsClose ==
    /\ BlockEnds("withLoop")
    /\ Commit(CreateEnd(expect(Parser, "}", "Expected '}' to close create attachments block.")))

\* an extend that checks the target of known artifacts only
ParseExtendTargetIfKnown ==
    /\ AtTopLevel
    /\ checkKeyword(Parser, Kw.extend)
    /\ LET artifact == expectIdentifier(advance(Parser), "Expected artifact name after 'extend'.")
           p1 == IF artifact.tok.value \notin DOMAIN artifact.ctx.artifacts
                 THEN reportToken(artifact, artifact.tok,
                                  "Unknown artifact '" \o Str(artifact.tok.value)
                                      \o "' in extend statement.",
                                  SEVERITY.ERROR)
                 ELSE artifact
           p2 == expect(p1, ".", "Expected '.' after artifact name in extend target.")
           target == expectIdentifier(p2, "Expected extend target after '.'.")
           p3 == IF target.tok # NullTok /\ target.tok.value # Kw.rubric
                    /\ artifact.tok.value \in DOMAIN artifact.ctx.artifacts
                 THEN reportToken(target, target.tok,
                                  "Only '<Artifact>.rubric' is currently supported by extend.",
                                  SEVERITY.ERROR)
                 ELSE target
           p4 == expectKeyword(p3, Kw.with, "Expected 'with' after extend target.")
           p5 == expectStringLiteral(p4, "Expected string or block string after 'with'.")
       IN  IF artifact.tok = NullTok THEN Commit(Goto(artifact, "syncTop"))
           ELSE Commit(expect(p5, ";", "Expected ';' after extend statement."))

ParseExtend ==
    /\ AtTopLevel
    /\ checkKeyword(Parser, Kw.extend)
    /\ LET artifact == expectIdentifier(advance(Parser), "Expected artifact name after 'extend'.")
           p1 == IF artifact.tok.value \notin DOMAIN artifact.ctx.artifacts
                 THEN reportToken(artifact, artifact.tok,
                                  "Unknown artifact '" \o Str(artifact.tok.value)
                                      \o "' in extend statement.",
                                  SEVERITY.ERROR)
                 ELSE artifact
           p2 == expect(p1, ".", "Expected '.' after artifact name in extend target.")
           target == expectIdentifier(p2, "Expected extend target after '.'.")
           p3 == IF target.tok # NullTok /\ target.tok.value # Kw.rubric
                 THEN reportToken(target, target.tok,
                                  "Only '<Artifact>.rubric' is currently supported by extend.",
                                  SEVERITY.ERROR)
                 ELSE target
           p4 == expectKeyword(p3, Kw.with, "Expected 'with' after extend target.")
           p5 == expectStringLiteral(p4, "Expected string or block string after 'with'.")
       IN  IF artifact.tok = NullTok THEN Commit(Goto(artifact, "syncTop"))
           ELSE Commit(expect(p5, ";", "Expected ';' after extend statement."))

ParseHalt ==
    /\ AtTopLevel
    /\ checkKeyword(Parser, Kw.halt)
    /\ LET p1 == advance(Parser)
           p2 == IF ~check(p1, ";")
                 THEN expectStringLiteral(p1, "Expected optional halt message string before ';'.")
                 ELSE p1
       IN  Commit(expect(p2, ";", "Expected ';' after halt statement."))

\* the last branch of the dispatch loop: no top-level keyword, not eof
ParseUnexpected ==
    /\ AtTopLevel
    /\ ~(check(Parser, "identifier") /\ current(Parser).value \in TOP_LEVEL_KEYWORDS)
    /\ Commit(Goto(reportCurrent(Parser, "Expected a top-level statement: juliet, policy, rubric, cadence, create, extend, or halt.",
                                 SEVERITY.ERROR),
                   "syncTop"))

\* the position at which sort inserts d into the sorted list: after every
\* element that does not compare greater (Array.prototype.sort is stable)
RECURSIVE InsertionPoint(_, _, _)
InsertionPoint(sorted, d, k) ==
    IF k = 0 THEN 0
    ELSE IF comparePositions(sorted[k].range.start, d.range.start) <= 0 THEN k
    ELSE InsertionPoint(sorted, d, k - 1)

\* an insertion that puts d before the elements it compares equal to
InsertBeforeEqual(sorted, d) ==
    LET k == Cardinality({j \in DOMAIN sorted :
                             comparePositions(sorted[j].range.start, d.range.start) < 0})
    IN  SubSeq(sorted, 1, k) \o <<d>> \o SubSeq(sorted, k + 1, Len(sorted))

\* an insertion that leaves out a diagnostic the list already holds
InsertUnlessPresent(sorted, d) ==
    LET k == InsertionPoint(sorted, d, Len(sorted))
    IN  IF \E j \in DOMAIN sorted : sorted[j] = d THEN sorted
        ELSE SubSeq(sorted, 1, k) \o <<d>> \o SubSeq(sorted, k + 1, Len(sorted))

InsertSorted(sorted, d) ==
    LET k == InsertionPoint(sorted, d, Len(sorted))
    IN  SubSeq(sorted, 1, k) \o <<d>> \o SubSeq(sorted, k + 1, Len(sorted))

\* this.diagnostics.sort((a, b) => comparePositions(a.range.start, b.range.start))
RECURSIVE Sort(_)
Sort(list) ==
    IF list = <<>> THEN <<>>
    ELSE InsertSorted(Sort(SubSeq(list, 1, Len(list) - 1)), list[Len(list)])

\* the end of parse(): the loop is left at eof and the sorted list is returned
ParseReturn ==
    /\ pc = "parse"
    /\ isAtEnd(Parser)
    /\ diagnostics' = Sort(diagnostics)
    /\ pc' = "done"
    /\ steps' = steps + 1
    /\ UNCHANGED <<tokenizerVars, callerVars, currentIndex, context, locals, ret, raised>>

-----------------------------------------------------------------------------
(* The sources given to lintJulietScript *)

\* the words of a statement, a space after each, then a newline
RECURSIVE Words(_)
Words(ws) == IF ws = <<>> THEN <<"\n">> ELSE Head(ws) \o <<" ">> \o Words(Tail(ws))

RECURSIVE Cat(_)
Cat(texts) == IF texts = <<>> THEN <<>> ELSE Head(texts) \o Cat(Tail(texts))

Quoted(chars) == <<"\"">> \o chars \o <<"\"">>
Block(chars) == <<"\"", "\"", "\"">> \o chars \o <<"\"", "\"", "\"">>

\* characters of the short sources: a letter, a digit, a quote, a newline, a
\* punctuation, a character outside the language, a backslash, a comment sign
Alphabet == {"a", "0", "\"", "\n", ";", "@", "\\", "#"}

ShortSources == UNION {[1..n -> Alphabet] : n \in 0..MaxLen}

\* statements that define and reference the name a in each of the four tables
WellFormed ==
    [policy |-> Words(<<Kw.policy, <<"a">>, <<"=">>, Quoted(<<"x">>), <<";">>>>),
     rubric |-> Words(<<Kw.rubric, <<"a">>, <<"{">>,
                        Kw.criterion, Quoted(<<"A">>), Kw.points, <<"1">>, <<";">>,
                        Kw.tiebreakers, <<"[">>, Quoted(<<"A">>), <<"]">>, <<";">>,
                        <<"}">>>>),
     cadence |-> Words(<<Kw.cadence, <<"a">>, <<"{">>,
                         Kw.variants, <<"=">>, <<"1">>, <<";">>,
                         Kw.sprints, <<"=">>, <<"2">>, <<";">>,
                         Kw.compare, Kw.using, <<"a">>, <<";">>,
                         Kw.keep, Kw.best, <<"1">>, <<";">>,
                         <<"}">>>>),
     create |-> Words(<<Kw.create, <<"a">>, Kw.from, Kw.juliet, Quoted(<<"p">>),
                        Kw.with, <<"{">>,
                        Kw.preflight, <<"=">>, <<"a">>, <<";">>,
                        Kw.cadence, <<"=">>, <<"a">>, <<";">>,
                        Kw.rubric, <<"=">>, <<"a">>, <<";">>,
                        <<"}">>, <<";">>>>),
     createUsing |-> Words(<<Kw.create, <<"b">>, Kw.from, Kw.julietArtifactSourceFiles,
                             <<"[">>, Quoted(<<"f">>), <<"]">>,
                             Kw.using, <<"[">>, <<"a">>, <<"]">>, <<";">>>>),
     extend |-> Words(<<Kw.extend, <<"a">>, <<".">>, Kw.rubric, Kw.with,
                        Quoted(<<"x">>), <<";">>>>),
     juliet |-> Words(<<Kw.juliet, <<"{">>, Kw.engine, <<"=">>, Kw.codex, <<";">>, <<"}">>>>),
     halt |-> Words(<<Kw.halt, Quoted(<<"x">>), <<";">>>>)]

WellFormedStatements == {WellFormed[k] : k \in DOMAIN WellFormed}

\* statements with a syntax error
Malformed ==
    [noName |-> Words(<<Kw.policy, <<"=">>, Quoted(<<"x">>), <<";">>>>),
     noBlock |-> Words(<<Kw.rubric, <<"a">>, <<";">>>>),
     noSemicolon |-> Words(<<Kw.halt>>)]

MalformedStatements == {Malformed[k] : k \in DOMAIN Malformed}

SequencesOf(statements, n) ==
    {Cat(stmts) : stmts \in UNION {[1..m -> statements] : m \in 1..n}}

WellFormedPrograms == SequencesOf(WellFormedStatements, MaxStmts)

Programs == SequencesOf(WellFormedStatements \cup MalformedStatements, MaxStmts)

\* sources that exercise the sub-grammars and their error branches
Scripts ==
    [julietKeys |->
         Words(<<Kw.juliet, <<"{">>, <<"x">>, <<"=">>, <<"3">>, <<";">>,
                 Kw.engine, <<"=">>, Quoted(Kw.codex), <<";">>, <<"=">>, <<"y">>, <<";">>,
                 Kw.engine, <<"=">>, <<"}">>>>)
         \o Words(<<Kw.juliet, <<"{">>, <<"}">>>>),
     rubricErrors |->
         Words(<<Kw.rubric, <<"r">>, <<"{">>,
                 Kw.tiebreakers, <<"[">>, Quoted(<<"B">>), <<",">>, Quoted(<<"A">>), <<"]">>, <<";">>,
                 Kw.criterion, Quoted(<<"A">>), Kw.points, <<"0">>, Kw.means, Quoted(<<" ">>), <<";">>,
                 <<"x">>, <<"y">>, <<";">>,
                 Kw.criterion, Kw.points, <<";">>,
                 Kw.tiebreakers, <<"[">>, <<"]">>, <<";">>,
                 <<"}">>>>),
     cadenceErrors |->
         Words(<<Kw.cadence, <<"c">>, <<"{">>,
                 Kw.engine, <<"=">>, Kw.codex, <<";">>,
                 Kw.variants, <<"=">>, <<"0">>, <<";">>,
                 <<"x">>, <<"=">>, <<"1">>, <<";">>,
                 Kw.keep, Kw.best, <<";">>,
                 Kw.keep, Kw.best, <<"0">>, <<";">>,
                 Kw.compare, Kw.using, <<"z">>, <<";">>,
                 <<"x">>, <<"y">>, <<";">>,
                 <<"}">>>>),
     createErrors |->
         Words(<<Kw.create, <<"a">>, Kw.from, Kw.julietArtifactSourceFiles,
                 <<"[">>, Quoted(<<"f">>), <<",">>, Quoted(<<"f">>), <<"]">>,
                 Kw.using, <<"[">>, <<"a">>, <<",">>, <<"b">>, <<"]">>,
                 Kw.with, <<"{">>,
                 Kw.rubric, <<"=">>, <<"r">>, <<";">>,
                 Kw.rubric, <<"=">>, <<";">>,
                 <<"x">>, <<"=">>, <<"y">>, <<";">>,
                 <<"=">>, <<"y">>, <<";">>,
                 <<"}">>, <<";">>>>)
         \o Words(<<Kw.create, <<"a">>, Kw.from, Kw.julietArtifactSourceFiles,
                    <<"[">>, <<"]">>, Kw.using, <<"[">>, <<"]">>, <<";">>>>)
         \o Words(<<Kw.create, <<"c">>, Kw.from, <<"x">>, <<";">>>>)
         \o Words(<<Kw.create, <<";">>>>),
     extendErrors |->
         Words(<<Kw.extend, <<"a">>, <<".">>, Kw.policy, Kw.with, Block(<<"x", "\n", "y">>), <<";">>>>)
         \o Words(<<Kw.extend, <<";">>>>)
         \o Words(<<Kw.cadence, <<";">>>>)
         \o Words(<<Kw.rubric, <<";">>>>)
         \o Words(<<Kw.halt, <<";">>>>)]

ErrorScripts == {Scripts[k] : k \in DOMAIN Scripts}

\* the script of the test 'accepts valid script', with its optional parts
CleanScript(engine, body, means, tiebreakers, message) ==
    Cat(<<Words(<<Kw.juliet, <<"{">>, Kw.engine, <<"=">>, engine, <<";">>, <<"}">>>>),
          Words(<<Kw.policy, <<"t">>, <<"=">>, body, <<";">>>>),
          Words(<<Kw.policy, <<"p">>, <<"=">>, Quoted(<<"o">>), <<";">>>>),
          Words(<<Kw.rubric, <<"q">>, <<"{">>,
                  Kw.criterion, Quoted(<<"A">>), Kw.points, <<"4">>>> \o means \o <<<<";">>,
                  Kw.criterion, Quoted(<<"B">>), Kw.points, <<"2">>, <<";">>>>
                  \o tiebreakers \o <<<<"}">>>>),
          Words(<<Kw.cadence, <<"c">>, <<"{">>,
                  Kw.engine, <<"=">>, engine, <<";">>,
                  Kw.variants, <<"=">>, <<"3">>, <<";">>,
                  Kw.sprints, <<"=">>, <<"2">>, <<";">>,
                  Kw.compare, Kw.using, <<"q">>, <<";">>,
                  Kw.keep, Kw.best, <<"2">>, <<";">>,
                  <<"}">>>>),
          Words(<<Kw.create, <<"m">>, Kw.from, Kw.juliet, body, Kw.with, <<"{">>,
                  Kw.preflight, <<"=">>, <<"p">>, <<";">>,
                  Kw.failureTriage, <<"=">>, <<"t">>, <<";">>,
                  Kw.cadence, <<"=">>, <<"c">>, <<";">>,
                  Kw.rubric, <<"=">>, <<"q">>, <<";">>,
                  <<"}">>, <<";">>>>),
          Words(<<Kw.extend, <<"m">>, <<".">>, Kw.rubric, Kw.with, body, <<";">>>>),
          Words(<<Kw.halt>> \o message \o <<<<";">>>>)>>)

CleanScripts ==
    {CleanScript(engine, body, means, tiebreakers, message) :
        engine \in {Kw.codex, Quoted(Kw.codex)},
        body \in {Quoted(<<"x">>), Block(<<"\n", "x", " ", "\"", "y", "\n">>)},
        means \in {<<>>, <<Kw.means, Quoted(<<"m">>)>>},
        tiebreakers \in {<<>>, <<Kw.tiebreakers, <<"[">>, Quoted(<<"B">>), <<",">>,
                                 Quoted(<<"A">>), <<"]">>, <<";">>>>},
        message \in {<<>>, <<Quoted(<<"h">>)>>}}

\* create statements of the artifact a with an error in one of their parts
CreateWithErrors ==
    [noFrom |-> Words(<<Kw.create, <<"a">>, Kw.juliet, Quoted(<<"p">>), <<";">>>>),
     noSource |-> Words(<<Kw.create, <<"a">>, Kw.from, <<"x">>, <<";">>>>),
     emptyFiles |-> Words(<<Kw.create, <<"a">>, Kw.from, Kw.julietArtifactSourceFiles,
                            <<"[">>, <<"]">>, <<";">>>>),
     badUsing |-> Words(<<Kw.create, <<"a">>, Kw.from, Kw.juliet, Quoted(<<"p">>),
                          Kw.using, <<"[">>, <<"1">>, <<"]">>, <<";">>>>),
     badWith |-> Words(<<Kw.create, <<"a">>, Kw.from, Kw.juliet, Quoted(<<"p">>),
                         Kw.with, <<"{">>, <<"=">>, <<"a">>, <<";">>, <<"x">>, <<"}">>, <<";">>>>),
     unclosedWith |-> Words(<<Kw.create, <<"a">>, Kw.from, Kw.juliet, Quoted(<<"p">>),
                              Kw.with, <<"{">>, Kw.preflight, <<"=">>, <<"a">>, <<";">>>>),
     noSemicolon |-> Words(<<Kw.create, <<"a">>, Kw.from, Kw.juliet, Quoted(<<"p">>)>>)]

\* create b from juliet "p" with { <key> = a ; } ;
CreateAttaching(key) ==
    Words(<<Kw.create, <<"b">>, Kw.from, Kw.juliet, Quoted(<<"p">>),
            Kw.with, <<"{">>, key, <<"=">>, <<"a">>, <<";">>, <<"}">>, <<";">>>>)

\* the elements of a list, a comma between them
RECURSIVE Listed(_)
Listed(items) ==
    IF Len(items) <= 1 THEN items
    ELSE <<Head(items), <<",">>>> \o Listed(Tail(items))

\* create a from julietArtifactSourceFiles [ <items> ] ;
CreateFromFiles(items) ==
    Words(<<Kw.create, <<"a">>, Kw.from, Kw.julietArtifactSourceFiles, <<"[">>>>
              \o Listed(items) \o <<<<"]">>, <<";">>>>)

\* criterion "<label>" points 1 ;
Criterion(label) == <<Kw.criterion, Quoted(label), Kw.points, <<"1">>, <<";">>>>

\* the criteria of a set of labels, in a fixed order
RECURSIVE Criteria(_)
Criteria(labels) ==
    IF labels = {} THEN <<>>
    ELSE LET label == CHOOSE l \in labels : TRUE
         IN  Criterion(label) \o Criteria(labels \ {label})

\* tiebreakers [ "<label>" , ... ] ;
Tiebreakers(labels) ==
    <<Kw.tiebreakers, <<"[">>>> \o Listed([k \in DOMAIN labels |-> Quoted(labels[k])])
        \o <<<<"]">>, <<";">>>>

Rubric(name, statements) ==
    Words(<<Kw.rubric, name, <<"{">>>> \o statements \o <<<<"}">>>>)

\* statements that end with ';', without it
Unterminated ==
    [policy |-> Words(<<Kw.policy, <<"a">>, <<"=">>, Quoted(<<"x">>)>>),
     create |-> CreateWithErrors.noSemicolon,
     extend |-> Words(<<Kw.extend, <<"a">>, <<".">>, Kw.rubric, Kw.with, Quoted(<<"x">>)>>),
     halt |-> Words(<<Kw.halt, Quoted(<<"x">>)>>)]

\* sources that exercise one rule of a production each
RuleScripts ==
    [\* a create with an error, then a statement that refers to its artifact
     createRecovery |->
         {CreateWithErrors[k] \o w :
             k \in DOMAIN CreateWithErrors,
             w \in {WellFormed.extend, WellFormed.createUsing}},
     \* a definition of a in one category, or none, then an attachment of a
     attachments |->
         {d \o CreateAttaching(key) :
             d \in {<<>>, WellFormed.policy, WellFormed.rubric, WellFormed.cadence,
                    CreateWithErrors.emptyFiles},
             key \in {Kw.preflight, Kw.failureTriage, Kw.cadence, Kw.rubric}},
     \* juliet { engine = codex ; <key> = <value> ; } with the keys project and
     \* language of the tests, the engine first or last, or a second unknown key
     julietKeys |->
         {Words(<<Kw.juliet, <<"{">>>> \o before \o <<key, <<"=">>, value, <<";">>>>
                    \o after \o <<<<"}">>>>) :
             key \in {<<"p", "r", "o", "j", "e", "c", "t">>,
                      <<"l", "a", "n", "g", "u", "a", "g", "e">>, <<"x">>},
             value \in {Quoted(<<"x">>), <<"y">>, <<"3">>, Block(<<"x">>)},
             before \in {<<>>, <<Kw.engine, <<"=">>, Kw.codex, <<";">>>>},
             after \in {<<>>, <<Kw.engine, <<"=">>, Kw.codex, <<";">>>>,
                        <<<<"z">>, <<"=">>, <<"1">>, <<";">>>>}},
     \* lists of up to three paths f and g, and lists with an element that is
     \* not a plain string
     sourceFiles |->
         {CreateFromFiles(items) :
             items \in UNION {[1..n -> {Quoted(<<"f">>), Quoted(<<"g">>)}] : n \in 0..3}
                           \cup {<<<<"x">>>>, <<Block(<<"f">>)>>, <<Quoted(<<"f">>), <<"x">>>>,
                                 <<<<"1">>, Quoted(<<"f">>)>>}},
     \* extend a . <target> with "x" ; after a create of a, or with a undefined
     extends |->
         {d \o Words(<<Kw.extend, <<"a">>, <<".">>, target, Kw.with, Quoted(<<"x">>), <<";">>>>) :
             d \in {<<>>, Words(<<Kw.create, <<"a">>, Kw.from, Kw.juliet, Quoted(<<"p">>),
                                  <<";">>>>)},
             target \in {Kw.rubric, Kw.policy, <<"p", "r", "o", "m", "p", "t">>}},
     \* cadence c { variants = 1 ; sprints = 1 ; keep best <limit> ; }
     keep |->
         {Words(<<Kw.cadence, <<"c">>, <<"{">>, Kw.variants, <<"=">>, <<"1">>, <<";">>,
                  Kw.sprints, <<"=">>, <<"1">>, <<";">>, Kw.keep, Kw.best>>
                    \o limit \o <<<<";">>, <<"}">>>>) :
             limit \in {<<>>, <<<<"0">>>>, <<<<"0", "0">>>>, <<<<"1">>>>, <<<<"2">>>>,
                        <<<<"1", "0">>>>, <<<<"a">>>>, <<Quoted(<<"1">>)>>}},
     \* rubrics whose tiebreakers come before or after the criteria, and
     \* rubrics next to another rubric that declares the criterion A
     tiebreakers |->
         {Rubric(<<"r">>, IF first THEN Tiebreakers(ties) \o Criteria(labels)
                          ELSE Criteria(labels) \o Tiebreakers(ties)) :
             labels \in SUBSET {<<"A">>, <<"B">>},
             ties \in {<<<<"A">>>>, <<<<"B">>, <<"A">>>>},
             first \in BOOLEAN}
         \cup {Rubric(<<"q">>, Criterion(<<"A">>)) \o Rubric(<<"r">>, Tiebreakers(<<<<"A">>>>)),
               Rubric(<<"r">>, Tiebreakers(<<<<"A">>>>)) \o Rubric(<<"q">>, Criterion(<<"A">>))},
     \* cadence c { [variants = <value> ;] [sprints = <value> ;] } with the
     \* value 1, 0 or missing
     cadenceKeys |->
         {Words(<<Kw.cadence, <<"c">>, <<"{">>>> \o variants \o sprints \o <<<<"}">>>>) :
             variants \in {<<>>} \cup {<<Kw.variants, <<"=">>>> \o v \o <<<<";">>>> :
                                          v \in {<<<<"1">>>>, <<<<"0">>>>, <<>>}},
             sprints \in {<<>>} \cup {<<Kw.sprints, <<"=">>>> \o v \o <<<<";">>>> :
                                         v \in {<<<<"1">>>>, <<<<"0">>>>, <<>>}}},
     \* rubric r { criterion "A" points 1 [means <meaning>] ; }
     means |->
         {Rubric(<<"r">>, <<Kw.criterion, Quoted(<<"A">>), Kw.points, <<"1">>>> \o means
                              \o <<<<";">>>>) :
             means \in {<<>>, <<Kw.means>>, <<Kw.means, Quoted(<<"m">>)>>,
                        <<Kw.means, Quoted(<<>>)>>, <<Kw.means, Quoted(<<" ">>)>>,
                        <<Kw.means, Block(<<" ", "\n">>)>>, <<Kw.means, Block(<<"m">>)>>,
                        <<Kw.means, <<"a">>>>, <<Kw.means, <<"1">>>>}},
     \* a statement that fails at the top level, tokens to skip, and the token
     \* at which the recovery stops: eof, a ';' or a top-level keyword
     topLevelRecovery |->
         {Words(first \o skipped \o stop) :
             first \in {<<Kw.policy, <<"=">>>>, <<<<"x">>>>, <<Kw.extend, <<".">>>>},
             skipped \in {<<>>, <<Quoted(<<"x">>)>>, <<<<"}">>, <<"y">>>>},
             stop \in {<<>>, <<<<";">>, Kw.halt, <<";">>>>, <<Kw.halt, <<";">>>>,
                       <<<<";">>, <<";">>, <<"y">>>>,
                       <<Kw.policy, <<"b">>, <<"=">>, Quoted(<<"y">>), <<";">>>>}},
     \* a block with a statement that fails, tokens to skip, and the token at
     \* which the recovery stops: eof, a ';' or the '}' of the block
     blockRecovery |->
         {Words(open \o skipped \o stop) :
             open \in {<<Kw.rubric, <<"r">>, <<"{">>, <<"x">>>>,
                       <<Kw.cadence, <<"c">>, <<"{">>, <<"x">>>>,
                       <<Kw.juliet, <<"{">>, <<"1">>>>,
                       <<Kw.create, <<"a">>, Kw.from, Kw.juliet, Quoted(<<"p">>), Kw.with,
                         <<"{">>, <<"1">>>>},
             skipped \in {<<>>, <<<<"y">>>>, <<Kw.halt, <<"[">>>>},
             stop \in {<<>>, <<<<"}">>>>, <<<<";">>, <<"}">>>>, <<<<";">>, <<";">>, <<"}">>>>,
                       <<<<"}">>, <<";">>, Kw.halt, <<";">>>>}},
     \* a first juliet block, well-formed or malformed, then nothing or a
     \* policy, then one or two more juliet blocks
     julietBlocks |->
         {Words(first) \o between \o Words(second) \o third :
             first \in {<<Kw.juliet, <<"{">>, Kw.engine, <<"=">>, Kw.codex, <<";">>, <<"}">>>>,
                        <<Kw.juliet, <<"}">>>>,
                        <<Kw.juliet, <<"{">>, <<"x">>, <<"}">>>>,
                        <<Kw.juliet, <<"{">>, Kw.engine, <<"=">>, <<"}">>>>},
             between \in {<<>>, WellFormed.policy},
             second \in {<<Kw.juliet, <<"{">>, <<"}">>>>, <<Kw.juliet, <<"}">>>>},
             third \in {<<>>, WellFormed.juliet}},
     \* create a from juliet "p" with { <key> = a ; ... } ;  with one to three
     \* keys, rubric or the unknown x, then nothing or a create b with one key
     withBlocks |->
         LET Attaching(name, keys) ==
                 Words(<<Kw.create, name, Kw.from, Kw.juliet, Quoted(<<"p">>), Kw.with, <<"{">>>>
                       \o [i \in 1..(4 * Len(keys)) |->
                              CASE i % 4 = 1 -> keys[(i + 3) \div 4]
                                [] i % 4 = 2 -> <<"=">>
                                [] i % 4 = 3 -> <<"a">>
                                [] OTHER -> <<";">>]
                       \o <<<<"}">>, <<";">>>>)
         IN  {Attaching(<<"a">>, keys) \o second :
                 keys \in UNION {[1..n -> {Kw.rubric, <<"x">>}] : n \in 1..3},
                 second \in {<<>>, Attaching(<<"b">>, <<Kw.rubric>>),
                             Attaching(<<"b">>, <<<<"x">>>>)}},
     \* a policy, rubric or cadence a whose body is malformed or missing, then a
     \* statement that refers to a in that category
     earlyRegistration |->
         {Words(<<Kw.policy, <<"a">>>> \o body) \o CreateAttaching(key) :
              body \in {<<<<";">>>>, <<<<"=">>, <<";">>>>, <<<<"=">>, <<"1">>, <<";">>>>,
                        <<Quoted(<<"x">>), <<";">>>>},
              key \in {Kw.preflight, Kw.failureTriage}}
         \cup {Words(<<Kw.rubric, <<"a">>>> \o body) \o ref :
                  body \in {<<<<"}">>>>, <<<<"{">>, <<"x">>, <<"}">>>>,
                            <<<<"{">>, Kw.criterion, <<";">>, <<"}">>>>},
                  ref \in {CreateAttaching(Kw.rubric),
                           Words(<<Kw.cadence, <<"c">>, <<"{">>, Kw.compare, Kw.using, <<"a">>,
                                   <<";">>, <<"}">>>>)}}
         \cup {Words(<<Kw.cadence, <<"a">>>> \o body) \o CreateAttaching(Kw.cadence) :
                  body \in {<<<<"}">>>>, <<<<"{">>, <<"x">>, <<"}">>>>,
                            <<<<"{">>, Kw.keep, <<";">>, <<"}">>>>}},
     \* create a from juliet "p" using [ a ] [with { x = a ; }] ;  alone, after
     \* a create of a or of b, and followed or not by the same statement
     selfUsing |->
         LET Create(name, rest) ==
                 Words(<<Kw.create, name, Kw.from, Kw.juliet, Quoted(<<"p">>)>> \o rest
                           \o <<<<";">>>>)
             Using(name) == <<Kw.using, <<"[">>, name, <<"]">>>>
             With == <<Kw.with, <<"{">>, <<"x">>, <<"=">>, <<"a">>, <<";">>, <<"}">>>>
         IN  {pre \o Create(<<"a">>, Using(<<"a">>) \o with) \o post :
                 pre \in {<<>>, Create(<<"a">>, <<>>), Create(<<"b">>, Using(<<"b">>))},
                 with \in {<<>>, With},
                 post \in {<<>>, Create(<<"a">>, Using(<<"a">>)),
                           Create(<<"b">>, Using(<<"a">>))}},
     \* three definitions of the name a, each a policy, a rubric or a cadence
     namespaces |->
         {Cat(stmts) : stmts \in [1..3 -> {WellFormed.policy, WellFormed.rubric,
                                           WellFormed.cadence}]},
     \* nothing or a juliet block, then  create [<name>] from juliet "p" ;  with
     \* the artifact name a, a string in its place, or no name
     julietSource |->
         {pre \o Words(<<Kw.create>> \o name \o <<Kw.from, Kw.juliet, Quoted(<<"p">>), <<";">>>>) :
             pre \in {<<>>, WellFormed.juliet},
             name \in {<<<<"a">>>>, <<Quoted(<<"x">>)>>, <<>>, <<Kw.create, <<"a">>>>}},
     \* a statement without its ';', then nothing, a halt or a policy
     unterminated |->
         {Unterminated[k] \o f :
             k \in DOMAIN Unterminated,
             f \in {<<>>, WellFormed.halt,
                    Words(<<Kw.policy, <<"b">>, <<"=">>, Quoted(<<"y">>), <<";">>>>)}}]

\* the scripts of an earlier edition of the tests, which sets the project in
\* the juliet block and attaches the triage policy under the key triage
EarlierTests ==
    [\* 'accepts valid script'
     valid |->
         {Cat(<<Words(<<Kw.juliet, <<"{">>, Kw.engine, <<"=">>, Kw.codex, <<";">>,
                        <<"p", "r", "o", "j", "e", "c", "t">>, <<"=">>, Quoted(<<"d", "-", "c">>),
                        <<";">>, <<"}">>>>),
                Words(<<Kw.policy, <<"t">>, <<"=">>, body, <<";">>>>),
                Words(<<Kw.policy, <<"p">>, <<"=">>, body, <<";">>>>),
                Words(<<Kw.rubric, <<"q">>, <<"{">>,
                        Kw.criterion, Quoted(<<"A">>), Kw.points, <<"4">>, <<";">>,
                        Kw.criterion, Quoted(<<"B">>), Kw.points, <<"2">>, <<";">>,
                        Kw.tiebreakers, <<"[">>, Quoted(<<"A">>), <<"]">>, <<";">>, <<"}">>>>),
                Words(<<Kw.cadence, <<"c">>, <<"{">>,
                        Kw.engine, <<"=">>, Kw.codex, <<";">>,
                        Kw.variants, <<"=">>, <<"3">>, <<";">>,
                        Kw.sprints, <<"=">>, <<"2">>, <<";">>,
                        Kw.compare, Kw.using, <<"q">>, <<";">>,
                        Kw.keep, Kw.best, <<"2">>, <<";">>, <<"}">>>>),
                Words(<<Kw.create, <<"m">>, Kw.from, Kw.juliet, body, Kw.with, <<"{">>,
                        Kw.preflight, <<"=">>, <<"p">>, <<";">>,
                        <<"t", "r", "i", "a", "g", "e">>, <<"=">>, <<"t">>, <<";">>,
                        Kw.cadence, <<"=">>, <<"c">>, <<";">>,
                        Kw.rubric, <<"=">>, <<"q">>, <<";">>, <<"}">>, <<";">>>>),
                Words(<<Kw.extend, <<"m">>, <<".">>, Kw.rubric, Kw.with, body, <<";">>>>),
                Words(<<Kw.halt, Quoted(<<"h">>), <<";">>>>)>>) :
             body \in {Quoted(<<"x">>), Block(<<"\n", "x", "\n">>)}},
     \* 'reports invalid project name format' and projects of other formats
     project |->
         {Words(<<Kw.juliet, <<"{">>, Kw.engine, <<"=">>, Kw.codex, <<";">>,
                  <<"p", "r", "o", "j", "e", "c", "t">>, <<"=">>, Quoted(value), <<";">>,
                  <<"}">>>>) :
             value \in {<<"Q", "2", " ", "m">>, <<"d", "-", "c">>, <<"d", "_", "c">>,
                        <<"a", ".", "b">>, <<"q", "2">>, <<" ">>}}]

\* the cadence of the language documentation, with each of its three
\* actions alone, with all of them, and with a keep limit
DocumentedCadences ==
    {Rubric(<<"q">>, Criterion(<<"A">>))
         \o Words(<<Kw.cadence, <<"c">>, <<"{">>, Kw.engine, <<"=">>, Kw.codex, <<";">>,
                    Kw.variants, <<"=">>, <<"3">>, <<";">>,
                    Kw.sprints, <<"=">>, <<"2">>, <<";">>>> \o actions \o <<<<"}">>>>) :
        actions \in
            {<<Kw.compare, Kw.using, <<"q">>, <<";">>>>,
             <<Kw.keep, Kw.best, <<";">>>>,
             <<<<"d", "i", "s", "c", "a", "r", "d">>, <<"r", "e", "s", "t">>, <<";">>>>,
             <<Kw.compare, Kw.using, <<"q">>, <<";">>, Kw.keep, Kw.best, <<";">>,
               <<"d", "i", "s", "c", "a", "r", "d">>, <<"r", "e", "s", "t">>, <<";">>>>,
             <<Kw.compare, Kw.using, <<"q">>, <<";">>, Kw.keep, Kw.best, <<"2">>, <<";">>>>}}

Sources == ShortSources \cup Programs \cup ErrorScripts \cup CleanScripts
               \cup UNION {RuleScripts[k] : k \in DOMAIN RuleScripts}
               \cup UNION {EarlierTests[k] : k \in DOMAIN EarlierTests}
               \cup DocumentedCadences

\* the source with which the caller probes a later invocation
Probe == WellFormed.extend

-----------------------------------------------------------------------------
(* lintJulietScript *)

Init ==
    /\ source \in Sources
    /\ index = 0
    /\ line = 0
    /\ character = 0
    /\ tokens = <<>>
    /\ lexDiagnostics = <<>>
    /\ currentIndex = 0
    /\ diagnostics = <<>>
    /\ context = NewContext
    /\ locals = NoLocals
    /\ pc = "tokenize"
    /\ ret = "parse"
    /\ raised = FALSE
    /\ run = 1
    /\ prevSource = <<>>
    /\ prevResult = <<>>
    /\ steps = 0

\* the caller lints again: the same text, or the probe; new Tokenizer(source)
Lint ==
    /\ pc = "done"
    /\ run < MaxRuns
    /\ \E s \in {source, Probe} :
           /\ source' = s
           /\ prevSource' = source
    /\ prevResult' = diagnostics
    /\ run' = run + 1
    /\ index' = 0
    /\ line' = 0
    /\ character' = 0
    /\ tokens' = <<>>
    /\ lexDiagnostics' = <<>>
    /\ pc' = "tokenize"
    /\ steps' = 0
    /\ UNCHANGED <<currentIndex, diagnostics, context, locals, ret, raised>>

Next ==
    \/ TokenizeIdentifier \/ TokenizeNumber \/ TokenizeBlockString \/ TokenizeString
    \/ TokenizePunctuation \/ TokenizeUnexpected \/ TokenizeEof
    \/ ParseJuliet \/ JulietAssignment \/ JulietClose
    \/ ParsePolicy
    \/ ParseRubric \/ RubricCriterion \/ RubricTiebreakers \/ TiebreakersItem
    \/ RubricOther \/ RubricClose
    \/ ParseCadence \/ CadenceCompare \/ CadenceKeep \/ CadenceAssignment
    \/ CadenceOther \/ CadenceClose
    \/ ParseCreate \/ SourceFilesItem \/ UsingItem \/ CreateAttachment \/ AttachmentsClose
    \/ ParseExtend \/ ParseHalt \/ ParseUnexpected
    \/ SynchronizeTopLevelAdvance \/ SynchronizeTopLevelReturn
    \/ SynchronizeInBlockAdvance \/ SynchronizeInBlockReturn
    \/ ParseReturn
    \/ Lint

Spec == Init /\ [][Next]_vars

-----------------------------------------------------------------------------
(* Properties *)

Range(list) == {list[k] : k \in DOMAIN list}

\* the number of occurrences of d in the list
Count(list, d) == Cardinality({k \in DOMAIN list : list[k] = d})

\* a <= b in the lexicographic (line, character) order
PositionLeq(a, b) == a.line < b.line \/ (a.line = b.line /\ a.character <= b.character)

\* the diagnostics of the list that start at pos, in the order of the list
StartingAt(list, pos) == SelectSeq(list, LAMBDA d : d.range.start = pos)

\* the diagnostics the parser has emitted, in emission order
ParserEmitted == SubSeq(diagnostics, Len(lexDiagnostics) + 1, Len(diagnostics))

\* C1: lintJulietScript never raises: no exception escapes, whatever the
\* source; while the parser runs its cursor is on a token of the list, at or
\* before the only eof token, so current() is defined, and every token a
\* report reads (current or previous) is defined.
C1_NeverRaises ==
    /\ ~raised
    /\ pc # "raised"
    /\ pc # "tokenize" =>
           /\ currentIndex \in 0..(Len(tokens) - 1)
           /\ \A k \in 1..Len(tokens) : tokens[k].kind = "eof" <=> k = Len(tokens)

\* C1 witness: a truncated block string has been linted to the end, its
\* lexical error and a failed expectation of the parser both recorded.
C1_Witness ==
    /\ pc = "done"
    /\ \E k \in DOMAIN tokens : tokens[k].kind = "blockString"
    /\ \E d \in Range(lexDiagnostics) : d.message = "Unterminated block string."
    /\ Len(diagnostics) > Len(lexDiagnostics)

\* the loops of the parser, from the top-level loop inwards, with the rank of
\* the control point that tests the loop's condition
LoopRank ==
    [parse |-> 0, julietLoop |-> 3, rubricLoop |-> 3, cadenceLoop |-> 3, withLoop |-> 3,
     tiebreakersList |-> 6, usingList |-> 7, sourceFilesList |-> 8]

\* the current token is one at which the loop at pc stops skipping
AtLoopBoundary ==
    \/ isAtEnd(Parser)
    \/ pc = "parse" /\ check(Parser, "identifier")
           /\ current(Parser).value \in TOP_LEVEL_KEYWORDS
    \/ pc # "parse" /\ check(Parser, "}")

\* what is left to do: the characters not yet scanned while tokenizing, then
\* the tokens not yet consumed (10 each), and the rank of the control point
\* among those that can follow one another without consuming a token
Measure ==
    CASE pc = "tokenize" -> 10 * (Len(source) + 2) + (Len(source) - index)
      [] pc = "done" -> 0
      [] pc = "syncTop" -> 10 * (Len(tokens) - currentIndex) + 1
      [] pc = "syncBlock" -> 10 * (Len(tokens) - currentIndex) + 4
      [] OTHER -> 10 * (Len(tokens) - currentIndex) + LoopRank[pc]
                      + (IF pc \in {"parse", "julietLoop", "rubricLoop", "cadenceLoop",
                                    "withLoop"} /\ ~AtLoopBoundary
                         THEN 2 ELSE 0)

\* C2: tokenize followed by parse terminates: every step of an invocation,
\* each counted in steps, consumes a character or a token or leaves a loop,
\* so that the natural number Measure strictly decreases until the return,
\* which leaves the tokenizer index at the end of the source and the cursor
\* on the eof token.
C2_Terminates ==
    [][ /\ pc # "done" =>
             /\ steps' = steps + 1
             /\ Measure' \in Nat
             /\ Measure' < Measure
        /\ pc' = "done" => index' = Len(source') /\ isAtEnd(Parser)' ]_vars

\* C2 witness: an invocation has returned after its parser went through a
\* block loop, a list loop and a synchronization (all leave diagnostics in
\* the rubric script).
C2_Witness ==
    /\ pc = "done"
    /\ source = Scripts.rubricErrors
    /\ index = Len(source)
    /\ currentIndex = Len(tokens) - 1

\* C3: the returned list is sorted by range start: each diagnostic starts at
\* or before the next one in (line, character) order.
C3_Sorted ==
    pc = "done" =>
        \A k \in 1..(Len(diagnostics) - 1) :
            PositionLeq(diagnostics[k].range.start, diagnostics[k + 1].range.start)

\* C3 witness: the tiebreaker warning, emitted after the rubric block closed,
\* is returned before the diagnostics emitted inside the block.
C3_Witness ==
    /\ pc = "done"
    /\ Len(diagnostics) > 1
    /\ diagnostics[1].message = "Tiebreaker 'B' does not match any declared rubric criterion."
    /\ diagnostics[2].message = "Criterion points should be a positive integer."

\* C4: the sort keeps insertion order among diagnostics with the same start:
\* in the returned list the diagnostics starting at a position are the
\* lexical ones, then the parser's, each in emission order.
C4_StableOrder ==
    [][(pc = "parse" /\ pc' = "done") =>
          \A pos \in {d.range.start : d \in Range(diagnostics)} :
              StartingAt(diagnostics', pos)
                  = StartingAt(lexDiagnostics, pos) \o StartingAt(ParserEmitted, pos)]_vars

\* C4 witness: a returned list holds a lexical diagnostic directly followed
\* by a parser diagnostic with the same start.
C4_Witness ==
    /\ pc = "done"
    /\ \E k \in 1..(Len(diagnostics) - 1) :
           /\ diagnostics[k].range.start = diagnostics[k + 1].range.start
           /\ diagnostics[k] \in Range(lexDiagnostics)
           /\ diagnostics[k + 1] \notin Range(lexDiagnostics)

\* the list a fresh invocation returns for the probe  extend a . rubric with "x" ;
ProbeResult ==
    <<Diagnostic([line |-> 0, character |-> 7], [line |-> 0, character |-> 8],
                 "Unknown artifact 'a' in extend statement.", SEVERITY.ERROR)>>

\* C5: the result depends only on the source text: linting the same text
\* again returns the same list, the probe is answered as by a fresh engine
\* whatever was linted before, and each parser starts on empty tables.
C5_NoStateSurvives ==
    /\ (pc = "done" /\ run > 1 /\ source = prevSource) => diagnostics = prevResult
    /\ (pc = "done" /\ source = Probe) => diagnostics = ProbeResult
    /\ (pc = "parse" /\ currentIndex = 0) =>
           context = NewContext /\ diagnostics = lexDiagnostics

\* C5 witness: the probe has been linted after a source that creates a.
C5_Witness ==
    /\ pc = "done"
    /\ run = 2
    /\ prevSource = WellFormed.create
    /\ source = Probe

\* C6: a clean script produces zero errors and zero warnings.
C6_CleanScript ==
    (pc = "done" /\ source \in CleanScripts) => diagnostics = <<>>

\* C6 witness: a clean script has been linted, all its statements parsed.
C6_Witness ==
    /\ pc = "done"
    /\ source \in CleanScripts
    /\ context.julietDeclared
    /\ DOMAIN context.policies = {<<"t">>, <<"p">>}
    /\ DOMAIN context.rubrics = {<<"q">>}
    /\ DOMAIN context.cadences = {<<"c">>}
    /\ DOMAIN context.artifacts = {<<"m">>}

\* token k is the identifier `word`
IsWord(k, word) ==
    k \in DOMAIN tokens /\ tokens[k].kind = "identifier" /\ tokens[k].value = word

IsKind(k, kind) == k \in DOMAIN tokens /\ tokens[k].kind = kind

\* token k is the first token of a statement of a well-formed program
StartsStatement(k) == k = 1 \/ IsKind(k - 1, ";") \/ IsKind(k - 1, "}")

\* the keyword that opens the definitions of each category
DefinitionKeyword ==
    [policy |-> Kw.policy, rubric |-> Kw.rubric, cadence |-> Kw.cadence,
     artifact |-> Kw.create]

Categories == DOMAIN DefinitionKeyword

\* token k is the name in a definition of the category `type`
Defines(k, type) ==
    /\ IsKind(k, "identifier")
    /\ IsWord(k - 1, DefinitionKeyword[type])
    /\ StartsStatement(k - 1)

\* a statement on an earlier line defines the name at token k in `type`
DefinedEarlier(k, type) ==
    \E j \in DOMAIN tokens :
        /\ Defines(j, type)
        /\ tokens[j].value = tokens[k].value
        /\ tokens[j].start.line < tokens[k].start.line

\* token k is the name a statement refers to, by the kind of reference
Refers(k) ==
    [compare |-> IsKind(k, "identifier") /\ IsWord(k - 1, Kw.using)
                     /\ IsWord(k - 2, Kw.compare),
     attachment |-> IsKind(k, "identifier") /\ IsKind(k - 1, "=")
                        /\ IsKind(k - 2, "identifier")
                        /\ tokens[k - 2].value \in DOMAIN CREATE_ALLOWED_KEYS,
     using |-> IsKind(k, "identifier") /\ IsKind(k - 1, "[") /\ IsWord(k - 2, Kw.using),
     extend |-> IsKind(k, "identifier") /\ IsWord(k - 1, Kw.extend)
                    /\ StartsStatement(k - 1)]

References == {k \in DOMAIN tokens : \E r \in DOMAIN Refers(k) : Refers(k)[r]}

\* the category in which the reference at token k is looked up
ReferenceType(k) ==
    CASE Refers(k).compare -> "rubric"
      [] Refers(k).attachment -> CREATE_ALLOWED_KEYS[tokens[k - 2].value]
      [] OTHER -> "artifact"

\* the error the reference at token k gets when it does not resolve
UnknownReference(k) ==
    LET name == Str(tokens[k].value)
        message ==
            CASE Refers(k).compare -> "Unknown rubric '" \o name \o "' in cadence compare action."
              [] Refers(k).attachment ->
                     "Unknown " \o ReferenceType(k) \o " '" \o name \o "' referenced by '"
                         \o Str(tokens[k - 2].value) \o "'."
              [] Refers(k).using -> "Unknown artifact '" \o name \o "' in using list."
              [] OTHER -> "Unknown artifact '" \o name \o "' in extend statement."
    IN  Diagnostic(tokens[k].start, tokens[k].end, message, SEVERITY.ERROR)

\* the warning a repeated definition at token k gets
DuplicateWarning(k, type) ==
    Diagnostic(tokens[k].start, tokens[k].end,
               "Duplicate " \o type \o " '" \o Str(tokens[k].value) \o "'.",
               SEVERITY.WARNING)

\* C7: resolution is single-pass and left to right: in a program of
\* well-formed statements, each reference (compare using, with-block
\* attachment, using entry, extend) has its 'Unknown ...' error, once, if and
\* only if no earlier statement defines the name in the required category;
\* a later definition does not remove the error.
C7_SinglePassResolution ==
    (pc = "done" /\ source \in WellFormedPrograms) =>
        \A k \in References :
            Count(diagnostics, UnknownReference(k))
                = IF DefinedEarlier(k, ReferenceType(k)) THEN 0 ELSE 1

\* C7 witness: an extend of a is followed by the create of a; the extend has
\* its error although a is in the artifact table at the end.
C7_Witness ==
    /\ pc = "done"
    /\ source = WellFormed.extend \o WellFormed.create
    /\ ProbeResult[1] \in Range(diagnostics)
    /\ <<"a">> \in DOMAIN context.artifacts

\* what C8 asks of a malformed statement followed by a well-formed one: the
\* later statement is dispatched, so that the name it defines is registered
\* and its unresolved references are reported.
C8_LaterStatementHandled ==
    (/\ pc = "done"
     /\ \E m \in MalformedStatements, w \in WellFormedStatements : source = m \o w) =>
        /\ \A type \in Categories : \A k \in DOMAIN tokens :
               (Defines(k, type) /\ tokens[k].start.line = 1) =>
                   tokens[k].value \in DOMAIN Table(context, type)
        /\ \A k \in References :
               (tokens[k].start.line = 1 /\ ~DefinedEarlier(k, ReferenceType(k))) =>
                   UnknownReference(k) \in Range(diagnostics)

\* C9: in a program of well-formed statements, a definition of a name that an
\* earlier statement defined in the same category gets exactly one warning
\* "Duplicate <category> '<name>'." at the repeated name token, a first
\* definition gets none, and the repeating statement is parsed as for a
\* fresh name: the name is in the table and no error other than those of
\* unresolved references is reported.
C9_DuplicateWarnedOnce ==
    (pc = "done" /\ source \in WellFormedPrograms) =>
        /\ \A type \in Categories : \A k \in DOMAIN tokens :
               Defines(k, type) =>
                   /\ Count(diagnostics, DuplicateWarning(k, type))
                          = IF DefinedEarlier(k, type) THEN 1 ELSE 0
                   /\ tokens[k].value \in DOMAIN Table(context, type)
        /\ \A d \in Range(diagnostics) :
               d.severity = SEVERITY.ERROR =>
                   \E k \in References : d = UnknownReference(k)

\* C9 witness: the policy a is defined twice; the only diagnostic is the
\* warning at the second name.
C9_Witness ==
    /\ pc = "done"
    /\ source = WellFormed.policy \o WellFormed.policy
    /\ diagnostics = <<Diagnostic([line |-> 1, character |-> 7],
                                  [line |-> 1, character |-> 8],
                                  "Duplicate policy 'a'.", SEVERITY.WARNING)>>

\* the entry of each table is the name token of a definition of its name
EntriesAreDefinitions ==
    \A type \in Categories : \A name \in DOMAIN Table(context, type) :
        \E k \in DOMAIN tokens :
            /\ Defines(k, type)
            /\ tokens[k] = Table(context, type)[name]

\* the lines of the definitions of `name` in the category `type`
DefinitionLines(type, name) ==
    {tokens[k].start.line : k \in {j \in DOMAIN tokens :
                                       Defines(j, type) /\ tokens[j].value = name}}

\* C10 as stated: first definition wins: each table entry is the name token
\* of the first definition of its name.
C10_FirstDefinitionKept ==
    (pc = "done" /\ source \in WellFormedPrograms) =>
        /\ EntriesAreDefinitions
        /\ \A type \in Categories : \A name \in DOMAIN Table(context, type) :
               \A l \in DefinitionLines(type, name) :
                   Table(context, type)[name].start.line <= l

\* C10: each table entry is the name token of the last definition of its
\* name: a repeated definition replaces the token of the entry, and the name
\* stays in the table.
C10_LastDefinitionKept ==
    (pc = "done" /\ source \in WellFormedPrograms) =>
        /\ EntriesAreDefinitions
        /\ \A type \in Categories : \A name \in DOMAIN Table(context, type) :
               \A l \in DefinitionLines(type, name) :
                   Table(context, type)[name].start.line >= l

\* C10 witness: the policy a is defined on lines 0 and 1; the entry of a is
\* the token on line 1.
C10_Witness ==
    /\ pc = "done"
    /\ source = WellFormed.policy \o WellFormed.policy
    /\ context.policies[<<"a">>].start.line = 1

\* C11: whenever create is followed by a name, the name is in the artifact
\* table once the statement has been processed, whatever errors its from
\* clause, using list, with-block or terminating ';' had; a later extend or
\* using entry of that name reports no unknown-artifact error.
C11_CreateAlwaysRegisters ==
    (pc = "done" /\ source \in RuleScripts.createRecovery) =>
        \A k \in DOMAIN tokens :
            (Defines(k, "artifact") /\ tokens[k].start.line = 0) =>
                /\ tokens[k].value \in DOMAIN context.artifacts
                /\ \A r \in References :
                       (/\ Refers(r).using \/ Refers(r).extend
                        /\ tokens[r].value = tokens[k].value) =>
                           UnknownReference(r) \notin Range(diagnostics)

\* C11 witness: a create without a source and without a ';' in place has
\* reported its errors, and the extend that follows it has reported nothing.
C11_Witness ==
    /\ pc = "done"
    /\ source = CreateWithErrors.noSource \o WellFormed.extend
    /\ Len(diagnostics) = 3
    /\ \A d \in Range(diagnostics) : d.range.start.line = 0 /\ d.severity = SEVERITY.ERROR
    /\ <<"a">> \in DOMAIN context.artifacts

\* the category in which each attachment key of a with-block is looked up
AttachmentCategory ==
    (Kw.preflight :> "policy") @@ (Kw.failureTriage :> "policy")
        @@ (Kw.cadence :> "cadence") @@ (Kw.rubric :> "rubric")

\* the parser is at  <recognized key> = <name>  in a with-block
AtAttachment ==
    /\ pc = "withLoop"
    /\ check(Parser, "identifier")
    /\ current(Parser).value \in DOMAIN AttachmentCategory
    /\ IsKind(currentIndex + 2, "=")
    /\ IsKind(currentIndex + 3, "identifier")

\* the error for the attachment at which the parser is
UnknownAttachment ==
    LET key == tokens[currentIndex + 1]
        value == tokens[currentIndex + 3]
    IN  Diagnostic(value.start, value.end,
                   "Unknown " \o AttachmentCategory[key.value] \o " '" \o Str(value.value)
                       \o "' referenced by '" \o Str(key.value) \o "'.",
                   SEVERITY.ERROR)

\* C12: in a with-block, a recognized key with the reference name n gets the
\* error "Unknown <type> '<n>' referenced by '<key>'." at the reference token
\* if and only if n is absent from the table of the key's category at that
\* point; n in a table of another category does not satisfy the reference.
C12_AttachmentResolvedInCategory ==
    [][AtAttachment =>
           Count(diagnostics', UnknownAttachment) - Count(diagnostics, UnknownAttachment)
               = IF tokens[currentIndex + 3].value
                        \in DOMAIN Table(context, AttachmentCategory[current(Parser).value])
                 THEN 0 ELSE 1]_vars

\* C12 witness: a rubric a is defined and the key failureTriage refers to a:
\* the reference is reported as an unknown policy.
C12_Witness ==
    /\ pc = "done"
    /\ source = WellFormed.rubric \o CreateAttaching(Kw.failureTriage)
    /\ <<"a">> \in DOMAIN context.rubrics
    /\ Len(diagnostics) = 1
    /\ diagnostics[1].message = "Unknown policy 'a' referenced by 'failureTriage'."


\* token k is the key of an assignment of a juliet block
IsJulietKey(k) ==
    /\ IsKind(k, "identifier")
    /\ IsKind(k - 1, "{") \/ IsKind(k - 1, ";")
    /\ IsKind(k + 1, "=")

\* the keys of the juliet block other than engine
UnknownJulietKeys == {k \in DOMAIN tokens : IsJulietKey(k) /\ tokens[k].value # Kw.engine}

UnknownJulietKey(k) ==
    Diagnostic(tokens[k].start, tokens[k].end,
               "Unknown juliet key '" \o Str(tokens[k].value) \o "'. Supported keys: engine.",
               SEVERITY.WARNING)

ListStart == CHOOSE k \in DOMAIN tokens : IsKind(k, "[") /\ IsWord(k - 1, Kw.julietArtifactSourceFiles)

\* token k is a path of the list: a plain string, with strings and commas
\* in alternation between the '[' and it
IsSourcePath(k) ==
    /\ k > ListStart /\ (k - ListStart) % 2 = 1
    /\ \A j \in (ListStart + 1)..k :
           IF (j - ListStart) % 2 = 1 THEN IsKind(j, "string") ELSE IsKind(j, ",")

SourcePaths == {k \in DOMAIN tokens : IsSourcePath(k)}

\* the paths equal to an earlier path of the list
RepeatedPaths ==
    {k \in SourcePaths : \E j \in SourcePaths : j < k /\ tokens[j].value = tokens[k].value}

\* the list holds nothing but its paths
OnlyPaths ==
    LET n == Cardinality(SourcePaths)
    IN  IsKind(ListStart + (IF n = 0 THEN 1 ELSE 2 * n), "]")

EmptySourceFiles ==
    Diagnostic(tokens[ListStart].start, tokens[ListStart].end,
               "Expected at least one file path in julietArtifactSourceFiles list.",
               SEVERITY.ERROR)

DuplicatePath(k) ==
    Diagnostic(tokens[k].start, tokens[k].end,
               "Duplicate source file path '" \o Str(tokens[k].value)
                   \o "' in julietArtifactSourceFiles list.",
               SEVERITY.WARNING)

\* C14: for create a from julietArtifactSourceFiles [...] ; the error
\* "Expected at least one file path in julietArtifactSourceFiles list." is
\* reported, once and at the '[', if and only if the list contributed no
\* string path; when the list holds plain strings only, the diagnostics are
\* that error for the empty list and one duplicate-path warning for each path
\* equal to an earlier one, so distinct paths produce no diagnostic.
C14_SourceFilesList ==
    (pc = "done" /\ source \in RuleScripts.sourceFiles) =>
        /\ Count(diagnostics, EmptySourceFiles) = IF SourcePaths = {} THEN 1 ELSE 0
        /\ OnlyPaths =>
               /\ \A k \in SourcePaths :
                      Count(diagnostics, DuplicatePath(k)) = IF k \in RepeatedPaths THEN 1 ELSE 0
               /\ Len(diagnostics) = Cardinality(RepeatedPaths)
                                         + IF SourcePaths = {} THEN 1 ELSE 0

\* C14 witness: the list [ "f" , "g" , "f" ] has returned one diagnostic,
\* the duplicate-path warning at the second "f".
C14_Witness ==
    /\ pc = "done"
    /\ source = CreateFromFiles(<<Quoted(<<"f">>), Quoted(<<"g">>), Quoted(<<"f">>)>>)
    /\ OnlyPaths
    /\ Cardinality(SourcePaths) = 3
    /\ diagnostics = <<DuplicatePath(ListStart + 5)>>

\* the parser is at  extend <name> . <target>
AtExtend ==
    /\ AtTopLevel
    /\ checkKeyword(Parser, Kw.extend)
    /\ IsKind(currentIndex + 2, "identifier")
    /\ IsKind(currentIndex + 3, ".")
    /\ IsKind(currentIndex + 4, "identifier")

UnknownExtended ==
    Diagnostic(tokens[currentIndex + 2].start, tokens[currentIndex + 2].end,
               "Unknown artifact '" \o Str(tokens[currentIndex + 2].value)
                   \o "' in extend statement.",
               SEVERITY.ERROR)

UnsupportedTarget ==
    Diagnostic(tokens[currentIndex + 4].start, tokens[currentIndex + 4].end,
               "Only '<Artifact>.rubric' is currently supported by extend.",
               SEVERITY.ERROR)

\* C15: the step that parses  extend <name> . <target> ...  reports "Unknown
\* artifact '<name>' in extend statement." at the name if and only if the
\* name is not in the artifact table at that point, and "Only
\* '<Artifact>.rubric' is currently supported by extend." at the target if
\* and only if the target is not rubric, each whatever the other does.
C15_ExtendChecksIndependent ==
    [][AtExtend =>
           /\ Count(diagnostics', UnknownExtended) - Count(diagnostics, UnknownExtended)
                  = IF tokens[currentIndex + 2].value \in DOMAIN context.artifacts
                    THEN 0 ELSE 1
           /\ Count(diagnostics', UnsupportedTarget) - Count(diagnostics, UnsupportedTarget)
                  = IF tokens[currentIndex + 4].value = Kw.rubric THEN 0 ELSE 1]_vars

\* C15 witness: an extend of the created artifact a with the target prompt
\* has returned the target error and nothing else.
C15_Witness ==
    /\ pc = "done"
    /\ source = Words(<<Kw.create, <<"a">>, Kw.from, Kw.juliet, Quoted(<<"p">>), <<";">>>>)
                    \o Words(<<Kw.extend, <<"a">>, <<".">>, <<"p", "r", "o", "m", "p", "t">>,
                               Kw.with, Quoted(<<"x">>), <<";">>>>)
    /\ Len(diagnostics) = 1
    /\ diagnostics[1].message = "Only '<Artifact>.rubric' is currently supported by extend."
    /\ diagnostics[1].range.start = [line |-> 1, character |-> 11]

\* the token after  keep best
KeepLimit == 1 + CHOOSE k \in DOMAIN tokens : IsWord(k, Kw.best) /\ IsWord(k - 1, Kw.keep)

KeepDiagnostic(message) ==
    Diagnostic(tokens[KeepLimit].start, tokens[KeepLimit].end, message, SEVERITY.ERROR)

IsTiebreaker(k) == IsKind(k, "string") /\ (IsKind(k - 1, "[") \/ IsKind(k - 1, ","))

\* token k is the label of a criterion
IsCriterionLabel(k) == IsKind(k, "string") /\ IsWord(k - 1, Kw.criterion)

\* a criterion of the rubric of token k (each rubric is on a line of its own)
\* has the label of token k
DeclaredInRubric(k) ==
    \E j \in DOMAIN tokens :
        /\ IsCriterionLabel(j)
        /\ tokens[j].start.line = tokens[k].start.line
        /\ tokens[j].value = tokens[k].value

UnmatchedTiebreaker(k) ==
    Diagnostic(tokens[k].start, tokens[k].end,
               "Tiebreaker '" \o Str(tokens[k].value)
                   \o "' does not match any declared rubric criterion.",
               SEVERITY.WARNING)

\* C17: a tiebreaker label of a rubric has the warning "Tiebreaker '<x>' does
\* not match any declared rubric criterion.", once, if and only if no
\* criterion of the same rubric block has that label, whether the criterion
\* comes before or after the tiebreakers statement; criteria of other
\* rubrics do not count.
C17_TiebreakerMatchesOwnRubric ==
    (pc = "done" /\ source \in RuleScripts.tiebreakers) =>
        LET unmatched == {k \in DOMAIN tokens : IsTiebreaker(k) /\ ~DeclaredInRubric(k)}
        IN  /\ \A k \in DOMAIN tokens :
                   IsTiebreaker(k) =>
                       Count(diagnostics, UnmatchedTiebreaker(k))
                           = IF k \in unmatched THEN 1 ELSE 0
            /\ Len(diagnostics) = Cardinality(unmatched)

\* C17 witness: rubric r lists the tiebreaker "A" and rubric q, before it,
\* declares the criterion "A"; the tiebreaker has its warning.
C17_Witness ==
    /\ pc = "done"
    /\ source = Rubric(<<"q">>, Criterion(<<"A">>)) \o Rubric(<<"r">>, Tiebreakers(<<<<"A">>>>))
    /\ Len(diagnostics) = 1
    /\ diagnostics[1].message = "Tiebreaker 'A' does not match any declared rubric criterion."
    /\ diagnostics[1].range.start.line = 1

\* the name token of the cadence
CadenceName == CHOOSE k \in DOMAIN tokens : IsWord(k - 1, Kw.cadence)

\* the block holds an assignment  <key> = ...
Assigned(key) == \E k \in DOMAIN tokens : IsWord(k, key) /\ IsKind(k + 1, "=")

MissingKey(key) ==
    Diagnostic(tokens[CadenceName].start, tokens[CadenceName].end,
               "Cadence is missing required key '" \o Str(key) \o "'.",
               SEVERITY.WARNING)

\* C18: once a cadence block has closed, the warning "Cadence is missing
\* required key 'variants'." (and likewise 'sprints') is reported, once and at
\* the cadence name, if and only if the block has no assignment to that key;
\* an assignment whose value is missing or 0 counts as an assignment.
C18_MissingCadenceKeys ==
    (pc = "done" /\ source \in RuleScripts.cadenceKeys) =>
        \A key \in {Kw.variants, Kw.sprints} :
            Count(diagnostics, MissingKey(key)) = IF Assigned(key) THEN 0 ELSE 1

\* C18 witness: in  cadence c { variants = ; sprints = 0 ; }  both values
\* are rejected and neither key is reported missing.
C18_Witness ==
    /\ pc = "done"
    /\ source = Words(<<Kw.cadence, <<"c">>, <<"{">>, Kw.variants, <<"=">>, <<";">>,
                        Kw.sprints, <<"=">>, <<"0">>, <<";">>, <<"}">>>>)
    /\ Len(diagnostics) = 2
    /\ diagnostics[1].message = "Expected an integer for cadence key 'variants'."
    /\ diagnostics[2].message = "Cadence 'sprints' should be greater than 0."

\* the block has a means clause
HasMeans == \E k \in DOMAIN tokens : IsWord(k, Kw.means)

\* the token after  means
Meaning == 1 + CHOOSE k \in DOMAIN tokens : IsWord(k, Kw.means)

\* the meaning is empty or consists of white space
BlankMeaning ==
    \A i \in DOMAIN tokens[Meaning].value : tokens[Meaning].value[i] \in {" ", "\t", "\r", "\n"}

MeaningDiagnostic(message, severity) ==
    Diagnostic(tokens[Meaning].start, tokens[Meaning].end, message, severity)

\* C19: in a criterion, means followed by a token that is not a string or a
\* block string reports the error "Expected criterion meaning string after
\* 'means'." at that token; followed by a string that is empty or white space
\* only it reports the warning "Criterion meaning should not be empty." at
\* the string and nothing else; a criterion without a means clause, or with
\* a meaning that is not blank, reports nothing.
C19_CriterionMeaning ==
    (pc = "done" /\ source \in RuleScripts.means) =>
        CASE ~HasMeans -> diagnostics = <<>>
          [] HasMeans /\ ~(IsKind(Meaning, "string") \/ IsKind(Meaning, "blockString")) ->
                 /\ Count(diagnostics,
                          MeaningDiagnostic("Expected criterion meaning string after 'means'.",
                                            SEVERITY.ERROR)) = 1
                 /\ \A d \in Range(diagnostics) :
                        d.message # "Criterion meaning should not be empty."
          [] OTHER ->
                 diagnostics = IF BlankMeaning
                               THEN <<MeaningDiagnostic("Criterion meaning should not be empty.",
                                                        SEVERITY.WARNING)>>
                               ELSE <<>>

\* C19 witness: the meaning " " has returned the warning and nothing else.
C19_Witness ==
    /\ pc = "done"
    /\ source \in RuleScripts.means
    /\ HasMeans
    /\ IsKind(Meaning, "string")
    /\ tokens[Meaning].value = <<" ">>
    /\ Len(diagnostics) = 1
    /\ diagnostics[1].message = "Criterion meaning should not be empty."
    /\ diagnostics[1].severity = SEVERITY.WARNING

\* the token found where the ';' of the statement on line 0 is expected: the
\* first token after that line
AfterStatement ==
    CHOOSE k \in DOMAIN tokens :
        /\ tokens[k].start.line > 0
        /\ \A j \in 1..(k - 1) : tokens[j].start.line = 0

\* what each statement calls itself in its message
StatementTitle ==
    (Kw.policy :> "policy declaration") @@ (Kw.create :> "create statement")
        @@ (Kw.extend :> "extend statement") @@ (Kw.halt :> "halt statement")

MissingSemicolon ==
    Diagnostic(tokens[AfterStatement].start, tokens[AfterStatement].end,
               "Expected ';' after " \o StatementTitle[tokens[1].value] \o ".",
               SEVERITY.ERROR)

\* C20: a policy, create, extend or halt statement without its ';' reports
\* the error "Expected ';' after ..." at the token found in the place of the
\* ';' (the eof token when the input ends there) and does not consume that
\* token: the statement that follows is parsed as a statement of its own,
\* without any further diagnostic, and a policy that follows is registered.
C20_MissingSemicolonRecovers ==
    (pc = "done" /\ source \in RuleScripts.unterminated) =>
        /\ Count(diagnostics, MissingSemicolon) = 1
        /\ \A d \in Range(diagnostics) : d.range.start.line > 0 => d = MissingSemicolon
        /\ IsWord(AfterStatement, Kw.policy) =>
               tokens[AfterStatement + 1].value \in DOMAIN context.policies
        /\ currentIndex = Len(tokens) - 1

\* C20 witness: a policy without ';' followed by halt "x" ; has returned one
\* diagnostic, the error at the halt keyword.
C20_Witness ==
    /\ pc = "done"
    /\ source = Unterminated.policy \o WellFormed.halt
    /\ IsWord(AfterStatement, Kw.halt)
    /\ diagnostics = <<MissingSemicolon>>
    /\ diagnostics[1].message = "Expected ';' after policy declaration."

\* the position after the last character of the source: one line per
\* newline, and the characters after the last newline
EndOfSource ==
    LET newlines == {i \in DOMAIN source : source[i] = "\n"}
        last == IF newlines = {} THEN 0
                ELSE CHOOSE i \in newlines : \A j \in newlines : j <= i
    IN  [line |-> Cardinality(newlines), character |-> Len(source) - last]

\* C21: the token stream the tokenizer returns holds exactly one eof token,
\* as its last token, with the zero-length range at the final scan position,
\* the end of the source; no eof token is pushed before the end, and lexical
\* errors do not change this.
C21_SingleEofAtEnd ==
    IF pc = "tokenize"
    THEN \A k \in DOMAIN tokens : tokens[k].kind # "eof"
    ELSE /\ tokens # <<>>
         /\ \A k \in DOMAIN tokens : tokens[k].kind = "eof" <=> k = Len(tokens)
         /\ tokens[Len(tokens)].start = EndOfSource
         /\ tokens[Len(tokens)].end = EndOfSource
         /\ tokens[Len(tokens)].value = <<>>
         /\ index = Len(source)
         /\ [line |-> line, character |-> character] = EndOfSource

\* C21 witness: a source that ends inside a string on its second line has
\* been tokenized: a lexical error, then the eof token at the end of line 1.
C21_Witness ==
    /\ pc = "parse"
    /\ lexDiagnostics # <<>>
    /\ Len(tokens) = 2
    /\ tokens[1].kind = "string"
    /\ tokens[2].kind = "eof"
    /\ tokens[2].start = [line |-> 1, character |-> 2]

\* the key project of the juliet block and the key triage of the with-block
ProjectKey == CHOOSE k \in DOMAIN tokens : IsWord(k, <<"p", "r", "o", "j", "e", "c", "t">>)
TriageKey ==
    CHOOSE k \in DOMAIN tokens : IsWord(k, <<"t", "r", "i", "a", "g", "e">>) /\ IsKind(k + 1, "=")

UnknownCreateKey(k) ==
    Diagnostic(tokens[k].start, tokens[k].end,
               "Unknown create attachment key '" \o Str(tokens[k].value)
                   \o "'. Supported keys: preflight, failureTriage, cadence, rubric.",
               SEVERITY.WARNING)

Says(message, phrase) ==
    \E i \in 1..(Len(message) - Len(phrase) + 1) :
        SubSeq(message, i, i + Len(phrase) - 1) = phrase

\* the value given to the key project
ProjectValue == tokens[ProjectKey + 2].value

\* the value holds a character other than a letter, a digit, '-' or '_'
BadProjectFormat ==
    \E i \in DOMAIN ProjectValue : ProjectValue[i] \notin Letters \cup Digits \cup {"-", "_"}

ProjectFormatReported ==
    \E d \in Range(diagnostics) :
        Says(d.message, "Project value must use only letters, numbers, '-' or '_' (no spaces)")

KeepsWithoutLimit ==
    {k \in DOMAIN tokens : IsWord(k, Kw.keep) /\ IsWord(k + 1, Kw.best) /\ IsKind(k + 2, ";")}
Discards ==
    {k \in DOMAIN tokens : IsWord(k, <<"d", "i", "s", "c", "a", "r", "d">>)
                               /\ IsWord(k + 1, <<"r", "e", "s", "t">>)}

ErrorAt(k, message) == Diagnostic(tokens[k].start, tokens[k].end, message, SEVERITY.ERROR)

UnderCursor == tokens[currentIndex + 1]

\* the token under the cursor is one of the seven top-level keywords
OnTopLevelKeyword ==
    /\ UnderCursor.kind = "identifier"
    /\ UnderCursor.value \in {Kw.juliet, Kw.policy, Kw.rubric, Kw.cadence, Kw.create,
                              Kw.extend, Kw.halt}

\* C25: top-level synchronization skips the token under the cursor and goes
\* on only while that token is not a ';', not one of the seven top-level
\* keywords and not eof; it returns at the first token that is: after the
\* ';', which it consumes, or on the keyword or eof, which it leaves under
\* the cursor.  It reports nothing.
C25_TopLevelSynchronization ==
    [][pc = "syncTop" =>
           /\ diagnostics' = diagnostics
           /\ CASE UnderCursor.kind = "eof" -> pc' = "parse" /\ currentIndex' = currentIndex
                [] UnderCursor.kind = ";" -> pc' = "parse" /\ currentIndex' = currentIndex + 1
                [] OnTopLevelKeyword -> pc' = "parse" /\ currentIndex' = currentIndex
                [] OTHER -> pc' = "syncTop" /\ currentIndex' = currentIndex + 1]_vars

\* C25 witness: after  policy = "x"  the synchronization has stopped on the
\* keyword halt, two tokens further, without consuming it.
C25_Witness ==
    /\ pc = "parse"
    /\ source = Words(<<Kw.policy, <<"=">>, Quoted(<<"x">>), Kw.halt, <<";">>>>)
    /\ currentIndex = 3
    /\ OnTopLevelKeyword
    /\ Len(diagnostics) = 1

\* the loops of the four kinds of block
BlockLoops == {"julietLoop", "rubricLoop", "cadenceLoop", "withLoop"}

\* C26: block-level synchronization skips the token under the cursor and goes
\* on only while that token is not a ';', not a '}' and not eof; it returns to
\* the loop of its block at the first token that is: after the ';', which it
\* consumes, or on the '}' or eof.  It never consumes a '}', and it reports
\* nothing.
C26_BlockSynchronization ==
    [][pc = "syncBlock" =>
           /\ diagnostics' = diagnostics
           /\ CASE UnderCursor.kind = "eof" -> pc' \in BlockLoops /\ currentIndex' = currentIndex
                [] UnderCursor.kind = ";" -> pc' \in BlockLoops /\ currentIndex' = currentIndex + 1
                [] UnderCursor.kind = "}" -> pc' \in BlockLoops /\ currentIndex' = currentIndex
                [] OTHER -> pc' = "syncBlock" /\ currentIndex' = currentIndex + 1]_vars

\* C26 witness: in  rubric r { x y }  the synchronization has skipped x and
\* y and returned to the loop of the rubric with the '}' under the cursor.
C26_Witness ==
    /\ pc = "rubricLoop"
    /\ source = Words(<<Kw.rubric, <<"r">>, <<"{">>, <<"x">>, <<"y">>, <<"}">>>>)
    /\ currentIndex = 5
    /\ UnderCursor.kind = "}"
    /\ Len(diagnostics) = 1
    /\ diagnostics[1].message = "Expected 'criterion' or 'tiebreakers' inside rubric block."

\* the number of characters of the source before a position
Offset(pos) ==
    IF pos.line = 0 THEN pos.character
    ELSE pos.character
             + CHOOSE i \in DOMAIN source :
                   /\ source[i] = "\n"
                   /\ Cardinality({j \in 1..i : source[j] = "\n"}) = pos.line

\* the lexical diagnostics that start where token k starts
LexicalAt(k) ==
    {i \in DOMAIN lexDiagnostics : lexDiagnostics[i].range.start = tokens[k].start}

\* the string token k has its closing quote: its text is the value and the
\* two quotes
Terminated(k) == Offset(tokens[k].end) - Offset(tokens[k].start) = Len(tokens[k].value) + 2

\* C27: a string cut short by an unescaped newline has one lexical error,
\* "String literals cannot span multiple lines; use triple quotes.", a string
\* cut short by the end of the input has one lexical error, "Unterminated
\* string literal.", both still push the string token with the text scanned
\* so far, and a string with its closing quote has none: each malformed
\* string literal has exactly one lexical diagnostic.
C27_OneDiagnosticPerString ==
    pc # "tokenize" =>
        \A k \in DOMAIN tokens :
            tokens[k].kind = "string" =>
                IF Terminated(k) THEN LexicalAt(k) = {}
                ELSE /\ Offset(tokens[k].end) - Offset(tokens[k].start)
                            = Len(tokens[k].value) + 1
                     /\ Cardinality(LexicalAt(k)) = 1
                     /\ \A i \in LexicalAt(k) :
                            lexDiagnostics[i].message
                                = IF Offset(tokens[k].end) = Len(source)
                                  THEN "Unterminated string literal."
                                  ELSE "String literals cannot span multiple lines; use triple quotes."

DuplicateJuliet == "Duplicate juliet block. Only one top-level juliet block is expected."

\* the diagnostics of the list d that warn of a duplicate juliet block
DuplicateJulietWarnings(d) == {i \in DOMAIN d : d[i].message = DuplicateJuliet}

\* the top-level loop is about to dispatch a juliet block
OnJulietBlock ==
    /\ pc = "parse"
    /\ UnderCursor.kind = "identifier"
    /\ UnderCursor.value = Kw.juliet

\* the diagnostics the step has added to the parser's list
Added == SubSeq(diagnostics', Len(diagnostics) + 1, Len(diagnostics'))

\* C28: the parser starts with no juliet block declared; the dispatch of a
\* juliet block by the top-level loop declares it, whether or not the block
\* is well-formed, and no other step changes that.  The dispatch of the first
\* juliet block of an invocation adds no duplicate warning; the dispatch of
\* every later one adds exactly one, the warning "Duplicate juliet block.
\* Only one top-level juliet block is expected." with the range of its juliet
\* keyword; no other step adds or removes a duplicate warning.
C28_DuplicateJulietWarned ==
    [][CASE pc = "tokenize" ->
                pc' = "parse" =>
                    /\ ~context'.julietDeclared
                    /\ DuplicateJulietWarnings(diagnostics') = {}
         [] OnJulietBlock ->
                /\ context'.julietDeclared
                /\ SubSeq(diagnostics', 1, Len(diagnostics)) = diagnostics
                /\ IF context.julietDeclared
                   THEN /\ DuplicateJulietWarnings(Added) = {1}
                        /\ Added[1] = Diagnostic(UnderCursor.start, UnderCursor.end,
                                                 DuplicateJuliet, "warning")
                   ELSE DuplicateJulietWarnings(Added) = {}
         [] OTHER ->
                /\ context'.julietDeclared = context.julietDeclared
                /\ Cardinality(DuplicateJulietWarnings(diagnostics'))
                       = Cardinality(DuplicateJulietWarnings(diagnostics))]_vars

\* C28 witness: the first block,  juliet }, is malformed, and the second and
\* the third juliet block have one duplicate warning each, on the keyword.
C28_Witness ==
    /\ pc = "done"
    /\ source = Words(<<Kw.juliet, <<"}">>>>) \o Words(<<Kw.juliet, <<"{">>, <<"}">>>>)
                    \o WellFormed.juliet
    /\ \E i \in DOMAIN diagnostics : diagnostics[i].message = "Expected '{' after 'juliet'."
    /\ LET later == {n \in DOMAIN tokens : /\ tokens[n].value = Kw.juliet
                                           /\ tokens[n].start.line > 0}
       IN  /\ {diagnostics[i].range : i \in DuplicateJulietWarnings(diagnostics)}
                  = {[start |-> tokens[k].start, end |-> tokens[k].end] : k \in later}
           /\ Cardinality(DuplicateJulietWarnings(diagnostics)) = Cardinality(later)
           /\ Cardinality(later) > 1

\* the '{' of the block in which the cursor is
BlockOpen ==
    CHOOSE j \in 1..currentIndex :
        /\ IsKind(j, "{")
        /\ \A k \in (j + 1)..currentIndex : ~IsKind(k, "{")

\* tokens k .. k + 3 are  <identifier> = <identifier> ;
IsAssignment(k) ==
    /\ IsKind(k, "identifier")
    /\ IsKind(k + 1, "=")
    /\ IsKind(k + 2, "identifier")
    /\ IsKind(k + 3, ";")

\* the keys of the with-block before the cursor, when the block so far is a
\* sequence of assignments
EarlierKeys == {k \in (BlockOpen + 1)..currentIndex : (k - BlockOpen) % 4 = 1}

\* the parser is at an assignment of a with-block that consists of
\* assignments up to there
AtWithAssignment ==
    /\ pc = "withLoop"
    /\ IsAssignment(currentIndex + 1)
    /\ \E j \in 1..currentIndex : IsKind(j, "{")
    /\ (currentIndex - BlockOpen) % 4 = 0
    /\ \A k \in EarlierKeys : IsAssignment(k)

DuplicateAttachment ==
    Diagnostic(UnderCursor.start, UnderCursor.end,
               "Duplicate create attachment '" \o Str(UnderCursor.value) \o "'.", "warning")

IsPermutation(a, b) ==
    /\ Len(a) = Len(b)
    /\ \A d \in Range(a) \cup Range(b) : Count(a, d) = Count(b, d)

\* C30: the parser starts from the tokenizer's diagnostics and only appends
\* to its list, and the list parse returns is a permutation of the
\* tokenizer's diagnostics followed by the diagnostics the parser emitted:
\* each appears as many times as it was emitted.  The sort drops, merges or
\* duplicates nothing, also when the list holds a diagnostic twice with the
\* same range and message: sorting the parser's list with any one of its
\* diagnostics repeated returns a permutation of that list.
C30_ResultIsPermutation ==
    [][/\ (pc = "tokenize" /\ pc' = "parse") => diagnostics' = lexDiagnostics'
       /\ (pc \notin {"tokenize", "done"} /\ pc' # "done") =>
              /\ lexDiagnostics' = lexDiagnostics
              /\ SubSeq(diagnostics', 1, Len(diagnostics)) = diagnostics
       /\ (pc = "parse" /\ pc' = "done") =>
              /\ lexDiagnostics' = lexDiagnostics
              /\ SubSeq(diagnostics, 1, Len(lexDiagnostics)) = lexDiagnostics
              /\ IsPermutation(diagnostics', lexDiagnostics \o ParserEmitted)
              /\ \A d \in Range(diagnostics) :
                     IsPermutation(Sort(Append(diagnostics, d)), Append(diagnostics, d))]_vars

\* C30 witness: a returned list in which a diagnostic of the parser precedes
\* a lexical one, so the sort has moved it, and which holds two diagnostics
\* with the same range; all the lexical diagnostics are in it.
C30_Witness ==
    /\ pc = "done"
    /\ \E i, j \in DOMAIN diagnostics :
           /\ i < j
           /\ diagnostics[i] \notin Range(lexDiagnostics)
           /\ diagnostics[j] \in Range(lexDiagnostics)
    /\ \E i, j \in DOMAIN diagnostics :
           /\ i # j
           /\ diagnostics[i].range = diagnostics[j].range
    /\ \A d \in Range(lexDiagnostics) : Count(diagnostics, d) = Count(lexDiagnostics, d)

\* the category of the definitions a top-level keyword opens when its name
\* is registered before its body
EarlyCategory ==
    (Kw.policy :> "policy") @@ (Kw.rubric :> "rubric") @@ (Kw.cadence :> "cadence")

\* the top-level loop is at  policy <name>, rubric <name>  or  cadence <name>
OnNamedDefinition ==
    /\ pc = "parse"
    /\ UnderCursor.kind = "identifier"
    /\ UnderCursor.value \in DOMAIN EarlyCategory
    /\ IsKind(currentIndex + 2, "identifier")

\* C31: the step that reads  policy <name>, rubric <name>  or  cadence <name>
\* leaves the name in the table of its category, whatever follows the name;
\* no step of the parser removes a name from a table; and in the scripts
\* where the body of the definition of a is malformed or missing and a later
\* statement refers to a in that category, the returned list has no
\* 'Unknown ...' error for the reference.
C31_RegisteredBeforeBody ==
    [][/\ OnNamedDefinition =>
              tokens[currentIndex + 2].value
                  \in DOMAIN Table(context', EarlyCategory[UnderCursor.value])
       /\ pc \notin {"tokenize", "done"} =>
              \A type \in {"policy", "rubric", "cadence", "artifact"} :
                  DOMAIN Table(context, type) \subseteq DOMAIN Table(context', type)
       /\ (pc' = "done" /\ source \in RuleScripts.earlyRegistration) =>
              /\ References # {}
              /\ \A k \in References : Count(diagnostics', UnknownReference(k)) = 0]_vars

\* C31 witness:  rubric a { criterion ; }  has reported its malformed body,
\* a is in the rubric table, and  compare using a  was parsed without an
\* 'Unknown rubric' error.
C31_Witness ==
    /\ pc = "done"
    /\ source \in RuleScripts.earlyRegistration
    /\ \E k \in References : Refers(k).compare /\ tokens[k].value \in DOMAIN context.rubrics
    /\ \E i \in DOMAIN diagnostics : diagnostics[i].message = "Expected criterion name string."
    /\ \A i \in DOMAIN diagnostics : ~Says(diagnostics[i].message, "Unknown")

\* the control points of parseCreate and of the productions it calls
CreatePoints == {"parse", "sourceFilesList", "usingList", "withLoop"}

\* C32: the artifact table changes only on the step that ends a create
\* statement and returns to the top-level loop, so while the using list of a
\* create statement is read the statement's own artifact is not yet in the
\* table: in the scripts whose create statements name their own artifact in
\* the using list, each using entry has the error "Unknown artifact '<name>'
\* in using list.", once, if and only if no create statement on an earlier
\* line defines the name.
C32_ArtifactRegisteredLast ==
    [][/\ (pc \notin {"tokenize", "done"} /\ context'.artifacts # context.artifacts) =>
              /\ pc \in CreatePoints
              /\ pc' = "parse"
              /\ IsKind(currentIndex', ";") \/ diagnostics'[Len(diagnostics')].message
                                                    = "Expected ';' after create statement."
       /\ (pc' = "done" /\ source \in RuleScripts.selfUsing) =>
              \A k \in References :
                  Count(diagnostics', UnknownReference(k))
                      = IF DefinedEarlier(k, "artifact") THEN 0 ELSE 1]_vars

\* C32 witness:  create a from juliet "p" using [ a ] ;  alone: a is in the
\* artifact table at the end, and the only diagnostic is the unknown-artifact
\* error on the using entry.
C32_Witness ==
    /\ pc = "done"
    /\ source \in RuleScripts.selfUsing
    /\ DOMAIN context.artifacts = {<<"a">>}
    /\ \E k \in References :
           /\ Refers(k).using
           /\ \E j \in 1..(k - 1) :
                  /\ Defines(j, "artifact")
                  /\ tokens[j].value = tokens[k].value
                  /\ tokens[j].start.line = tokens[k].start.line
           /\ diagnostics = <<UnknownReference(k)>>

\* the diagnostic d warns of a repeated definition in some category
WarnsOfDuplicate(d) ==
    \E type \in Categories : Says(d.message, "Duplicate " \o type \o " '")

\* an earlier statement defines the name at token k in another category
DefinedEarlierElsewhere(k, type) ==
    \E other \in Categories \ {type} : DefinedEarlier(k, other)

\* C33: the four tables are separate name-spaces: in a program of
\* well-formed statements, the first definition of a name in a category gets
\* no duplicate warning, also when earlier statements define the name in
\* other categories; and every duplicate warning is "Duplicate <category>
\* '<name>'." at a definition in that category of a name an earlier statement
\* defined in that same category.
C33_SeparateNamespaces ==
    (pc = "done" /\ source \in WellFormedPrograms \cup RuleScripts.namespaces) =>
        /\ \A type \in Categories : \A k \in DOMAIN tokens :
               (Defines(k, type) /\ ~DefinedEarlier(k, type)) =>
                   \A d \in Range(diagnostics) :
                       d.range.start = tokens[k].start => ~WarnsOfDuplicate(d)
        /\ \A d \in Range(diagnostics) :
               WarnsOfDuplicate(d) =>
                   \E type \in Categories : \E k \in DOMAIN tokens :
                       /\ Defines(k, type)
                       /\ DefinedEarlier(k, type)
                       /\ d = DuplicateWarning(k, type)

\* C33 witness: a is defined as a policy, then as a rubric, then as a policy
\* again: the rubric has no duplicate warning, and the only duplicate warning
\* is "Duplicate policy 'a'." at the third definition.
C33_Witness ==
    /\ pc = "done"
    /\ source = WellFormed.policy \o WellFormed.rubric \o WellFormed.policy
    /\ \E k \in DOMAIN tokens :
           /\ Defines(k, "rubric")
           /\ DefinedEarlierElsewhere(k, "rubric")
           /\ tokens[k].value \in DOMAIN context.policies \cap DOMAIN context.rubrics
    /\ \E k \in DOMAIN tokens : diagnostics = <<DuplicateWarning(k, "policy")>>

\* the juliet keywords of the source that do not follow  from: the top-level
\* juliet statements
JulietStatements ==
    {k \in DOMAIN tokens : IsWord(k, Kw.juliet) /\ ~IsWord(k - 1, Kw.from)}

\* C34, as claimed: the juliet of  create X from juliet ...  is never taken
\* for a juliet block: whatever the tokens, the juliet-declared flag is set
\* only if the source has a top-level juliet statement, and a duplicate
\* warning is reported only if it has more than one.
C34_SourceNeverABlock ==
    pc # "tokenize" =>
        /\ context.julietDeclared => JulietStatements # {}
        /\ DuplicateJulietWarnings(diagnostics) # {} => Cardinality(JulietStatements) > 1

\* the top-level loop is at  create <name> from juliet
OnCreateFromJuliet ==
    /\ pc = "parse"
    /\ IsWord(currentIndex + 1, Kw.create)
    /\ IsKind(currentIndex + 2, "identifier")
    /\ IsWord(currentIndex + 3, Kw.from)
    /\ IsWord(currentIndex + 4, Kw.juliet)

\* the parser is in parseCreate or about to enter it
InCreate ==
    \/ pc \in CreatePoints \ {"parse"}
    \/ pc = "parse" /\ IsWord(currentIndex + 1, Kw.create)

\* C34, amended: no step of a create statement sets the juliet-declared flag
\* or adds a duplicate-juliet warning, and a create statement with an
\* artifact name consumes the juliet of  from juliet  itself, so that this
\* juliet is never dispatched as a block.
C34_CreateConsumesItsJuliet ==
    [][/\ InCreate =>
              /\ context'.julietDeclared = context.julietDeclared
              /\ DuplicateJulietWarnings(Added) = {}
       /\ OnCreateFromJuliet => currentIndex' >= currentIndex + 4]_vars

\* C34 witness: a juliet block, then  create a from juliet "p" ;  the flag is
\* set by the block, the artifact is registered and nothing is reported.
C34_Witness ==
    /\ pc = "done"
    /\ source \in RuleScripts.julietSource
    /\ context.julietDeclared
    /\ Cardinality(JulietStatements) = 1
    /\ \E k \in DOMAIN tokens : IsWord(k, Kw.juliet) /\ IsWord(k - 1, Kw.from)
    /\ <<"a">> \in DOMAIN context.artifacts
    /\ diagnostics = <<>>

\* the index of the eof token in the parser's 0-based token array
EofIndex == Len(tokens) - 1

\* C35: while the parser runs, no step moves the cursor backwards or past
\* the eof token; advance() moves the cursor by one token, except on eof,
\* where it leaves it; and peek() is the token after the cursor, or the eof
\* token when the cursor is on it: never a read past the end of the list.
C35_CursorInBounds ==
    [][pc \notin {"tokenize", "done"} =>
           /\ currentIndex <= currentIndex'
           /\ currentIndex' \in 0..EofIndex
           /\ advance(Parser).i
                  = IF UnderCursor.kind = "eof" THEN currentIndex ELSE currentIndex + 1
           /\ advance(Parser).ok
           /\ peek(Parser) = IF currentIndex = EofIndex THEN tokens[Len(tokens)]
                             ELSE tokens[currentIndex + 2]]_vars

\* C35 witness: the parser has consumed tokens and its cursor is on eof:
\* advance() leaves it there and peek() is the eof token.
C35_Witness ==
    /\ pc = "parse"
    /\ currentIndex > 0
    /\ currentIndex = EofIndex
    /\ UnderCursor.kind = "eof"
    /\ advance(Parser).i = currentIndex
    /\ peek(Parser) = UnderCursor

\* position a is strictly before position b in (line, character) order
PositionLess(a, b) == PositionLeq(a, b) /\ a # b

\* the range of token k
TokenRange(k) == [start |-> tokens[k].start, end |-> tokens[k].end]

\* C36: at every moment the tokens pushed so far have start <= end (only the
\* eof token is empty) and follow each other in source order without
\* overlap: the end of a token is at or before the start of the next; and
\* every diagnostic the parser has emitted, and every returned diagnostic that
\* is not a lexical one, has the range of a token of the list.
C36_TokenRanges ==
    /\ \A k \in DOMAIN tokens :
           /\ PositionLeq(tokens[k].start, tokens[k].end)
           /\ tokens[k].kind # "eof" => PositionLess(tokens[k].start, tokens[k].end)
           /\ k < Len(tokens) => PositionLeq(tokens[k].end, tokens[k + 1].start)
    /\ pc \notin {"tokenize", "done"} =>
           \A d \in Range(ParserEmitted) : \E k \in DOMAIN tokens : d.range = TokenRange(k)
    /\ pc = "done" =>
           \A d \in Range(diagnostics) \ Range(lexDiagnostics) :
               \E k \in DOMAIN tokens : d.range = TokenRange(k)

\* C36 witness: a token list that spans several lines, and a parser that has
\* reported on a token of the list and on the eof token.
C36_Witness ==
    /\ pc = "parse"
    /\ \E k \in 1..(Len(tokens) - 1) : tokens[k].start.line > 0
    /\ \E d \in Range(ParserEmitted) : d.range = TokenRange(Len(tokens))
    /\ \E d \in Range(ParserEmitted) :
           \E k \in 1..(Len(tokens) - 1) : d.range = TokenRange(k)
====
